---- MODULE Spec2Model ----
(***************************************************************************)
(* QR link share: the session store, the rate limiter, the POST /session,  *)
(* POST /submit and GET /listen handlers, as a state machine.              *)
(*                                                                         *)
(* Time is Date.now() in milliseconds.  Strings that the code inspects     *)
(* character by character (the submitted link) are sequences of one-       *)
(* character strings; identifiers the code only compares or concatenates   *)
(* (session ids, limiter keys) are TLA+ strings.                           *)
(***************************************************************************)
EXTENDS Integers, Sequences, FiniteSets, TLC

VARIABLES
    now,            \* Date.now()
    memoryStore,    \* storage.ts: Map<string, SessionData>
    evictTimers,    \* pending setTimeout callbacks of createSession: {[id, due]}
    rateLimitStore, \* rate-limiter.ts: Map<string, RateLimitEntry>
    issued,         \* ids generateSessionId has returned so far
    reqs,           \* POST /submit requests: position, inputs, response
    creates,        \* POST /session requests: response
    chans,          \* GET /listen streams: position, events sent, poll timer
    admitted,       \* per limiter key, a record of the calls checkRateLimit
                    \* admitted (kept for the claims, read by no action)
    page            \* page.tsx: the Home component's state, its pending open
                    \* timers and its EventSources

vars == <<now, memoryStore, evictTimers, rateLimitStore, issued, reqs, creates, chans,
          admitted, page>>

-----------------------------------------------------------------------------
(* Program constants *)

sessionTtl == 300000         \* getSessionExpiration: 5 * 60 * 1000
pollInterval == 1000         \* listen route
maxDuration == 300000        \* listen route: 5 * 60 * 1000
graceMs == 3000              \* listen route: elapsed > 3000
submitMaxRequests == 5       \* submit route: checkRateLimit(.., 5, 60000)
sessionMaxRequests == 10     \* session route: checkRateLimit(.., 10, 60000)
windowMs == 60000            \* both routes
maxUrlLength == 2048         \* FEATURES.md: Max URL Length
openDelay == 100             \* page.tsx: setTimeout(..., 100) of listenForLink

(* Bounds of the model *)

Slack == 1                   \* the clock is observed up to Slack ms after each offset

\* The instants at which the clock is read: each offset and up to Slack ms after it
InstantsAt(offsets) == {o + j : o \in offsets, j \in 0..Slack}

SessionIds == {"s1", "s2"}

-----------------------------------------------------------------------------
(* Strings as character sequences *)

UpperCase == <<"A","B","C","D","E","F","G","H","I","J","K","L","M",
               "N","O","P","Q","R","S","T","U","V","W","X","Y","Z">>
LowerCase == <<"a","b","c","d","e","f","g","h","i","j","k","l","m",
               "n","o","p","q","r","s","t","u","v","w","x","y","z">>
Digits == {"0","1","2","3","4","5","6","7","8","9"}

Range(s) == {s[i] : i \in DOMAIN s}

\* String.prototype.toLowerCase, one character
LowerChar(c) ==
    IF \E i \in DOMAIN UpperCase : UpperCase[i] = c
    THEN LowerCase[CHOOSE i \in DOMAIN UpperCase : UpperCase[i] = c]
    ELSE c

toLowerCase(s) == [i \in DOMAIN s |-> LowerChar(s[i])]

\* White space and line terminators String.prototype.trim removes
\* (those of the model's alphabet)
JsWhiteSpace == {" ", "\t", "\n", "\r"}

\* Characters the URL parser strips from both ends: C0 control or space.
\* "NUL" stands for U+0000, which trim() leaves alone.
C0ControlOrSpace == {" ", "\t", "\n", "\r", "NUL"}

\* Characters the URL parser removes anywhere in the input
AsciiTabOrNewline == {"\t", "\n", "\r"}

RECURSIVE StripLeft(_, _)
StripLeft(s, set) ==
    IF s # <<>> /\ Head(s) \in set THEN StripLeft(Tail(s), set) ELSE s

RECURSIVE StripRight(_, _)
StripRight(s, set) ==
    IF s # <<>> /\ s[Len(s)] \in set
    THEN StripRight(SubSeq(s, 1, Len(s) - 1), set)
    ELSE s

trim(s) == StripRight(StripLeft(s, JsWhiteSpace), JsWhiteSpace)

startsWith(s, prefix) ==
    Len(s) >= Len(prefix) /\ SubSeq(s, 1, Len(prefix)) = prefix

-----------------------------------------------------------------------------
(* new URL(input) without a base, as far as isValidUrl depends on it:      *)
(* whether parsing succeeds, and the protocol                              *)

SpecialSchemes == { <<"h","t","t","p">>, <<"h","t","t","p","s">>,
                    <<"f","t","p">>, <<"w","s">>, <<"w","s","s">> }

IsAlpha(c) == c \in Range(UpperCase) \cup Range(LowerCase)
IsSchemeChar(c) == IsAlpha(c) \/ c \in Digits \/ c \in {"+", "-", "."}

ForbiddenHostChars == {" ", "NUL", "<", ">", "^", "|", "%", "[", "]"}

\* Index of the first ":" of s, 0 when there is none
FirstColon(s) ==
    IF \E i \in DOMAIN s : s[i] = ":"
    THEN CHOOSE i \in DOMAIN s : s[i] = ":" /\ \A j \in 1..(i - 1) : s[j] # ":"
    ELSE 0

\* The host of a special-scheme URL: what follows the slashes, up to the
\* path, query or fragment
HostOf(rest) ==
    LET r == StripLeft(rest, {"/", "\\"})
        stops == {i \in DOMAIN r : r[i] \in {"/", "\\", "?", "#"}}
        end == IF stops = {} THEN Len(r)
               ELSE (CHOOSE i \in stops : \A j \in stops : i <= j) - 1
    IN  SubSeq(r, 1, end)

ParseUrl(input) ==
    LET s == SelectSeq(StripRight(StripLeft(input, C0ControlOrSpace), C0ControlOrSpace),
                       LAMBDA c : c \notin AsciiTabOrNewline)
        colon == FirstColon(s)
        schemeOk == /\ colon > 1
                    /\ IsAlpha(s[1])
                    /\ \A i \in 1..(colon - 1) : IsSchemeChar(s[i])
        scheme == toLowerCase(SubSeq(s, 1, colon - 1))
        host == HostOf(SubSeq(s, colon + 1, Len(s)))
    IN  IF ~schemeOk THEN [ok |-> FALSE, protocol |-> <<>>]
        ELSE IF scheme \in SpecialSchemes /\ (host = <<>> \/ Range(host) \cap ForbiddenHostChars # {})
        THEN [ok |-> FALSE, protocol |-> <<>>]
        ELSE [ok |-> TRUE, protocol |-> scheme \o <<":">>]

\* isValidUrl without the protocol test
isValidUrlAnyScheme(urlString) == ParseUrl(urlString).ok

\* utils: isValidUrl
isValidUrl(urlString) ==
    LET url == ParseUrl(urlString)
    IN  url.ok /\ url.protocol \in { <<"h","t","t","p",":">>, <<"h","t","t","p","s",":">> }

DenyList == { <<"j","a","v","a","s","c","r","i","p","t",":">>,
              <<"d","a","t","a",":">>,
              <<"v","b","s","c","r","i","p","t",":">> }

\* sanitizeUrl returning its argument instead of the trimmed string
sanitizeUrlNoTrim(urlString) ==
    LET url == trim(urlString)
    IN  IF \E p \in DenyList : startsWith(toLowerCase(url), p)
        THEN [threw |-> TRUE, url |-> urlString]
        ELSE [threw |-> FALSE, url |-> urlString]

\* utils: sanitizeUrl. threw = the Error('Invalid URL protocol')
sanitizeUrl(urlString) ==
    LET url == trim(urlString)
    IN  IF \E p \in DenyList : startsWith(toLowerCase(url), p)
        THEN [threw |-> TRUE, url |-> url]
        ELSE [threw |-> FALSE, url |-> url]

-----------------------------------------------------------------------------
(* rate-limiter.ts *)

\* checkRateLimit moving resetAt with every admitted call
checkRateLimitSliding(rl, identifier, maxRequests, window, t) ==
    IF identifier \notin DOMAIN rl \/ t > rl[identifier].resetAt
    THEN [allowed |-> TRUE,
          store |-> [k \in DOMAIN rl \cup {identifier} |->
                        IF k = identifier
                        THEN [count |-> 1, resetAt |-> t + window]
                        ELSE rl[k]]]
    ELSE IF rl[identifier].count >= maxRequests
    THEN [allowed |-> FALSE, store |-> rl]
    ELSE [allowed |-> TRUE,
          store |-> [rl EXCEPT ![identifier] =
                        [count |-> @.count + 1, resetAt |-> t + window]]]

\* checkRateLimit rejecting only above maxRequests
checkRateLimitOffByOne(rl, identifier, maxRequests, window, t) ==
    IF identifier \notin DOMAIN rl \/ t > rl[identifier].resetAt
    THEN [allowed |-> TRUE,
          store |-> [k \in DOMAIN rl \cup {identifier} |->
                        IF k = identifier
                        THEN [count |-> 1, resetAt |-> t + window]
                        ELSE rl[k]]]
    ELSE IF rl[identifier].count > maxRequests
    THEN [allowed |-> FALSE, store |-> rl]
    ELSE [allowed |-> TRUE,
          store |-> [rl EXCEPT ![identifier].count = @ + 1]]

\* checkRateLimit starting a new window as soon as now reaches resetAt
checkRateLimitResetAtEqual(rl, identifier, maxRequests, window, t) ==
    IF identifier \notin DOMAIN rl \/ t >= rl[identifier].resetAt
    THEN [allowed |-> TRUE,
          store |-> [k \in DOMAIN rl \cup {identifier} |->
                        IF k = identifier
                        THEN [count |-> 1, resetAt |-> t + window]
                        ELSE rl[k]]]
    ELSE IF rl[identifier].count >= maxRequests
    THEN [allowed |-> FALSE, store |-> rl]
    ELSE [allowed |-> TRUE,
          store |-> [rl EXCEPT ![identifier].count = @ + 1]]

\* checkRateLimit(identifier, maxRequests, windowMs) at time t on the map rl:
\* the boolean returned and the map afterwards
checkRateLimit(rl, identifier, maxRequests, window, t) ==
    IF identifier \notin DOMAIN rl \/ t > rl[identifier].resetAt
    THEN [allowed |-> TRUE,
          store |-> [k \in DOMAIN rl \cup {identifier} |->
                        IF k = identifier
                        THEN [count |-> 1, resetAt |-> t + window]
                        ELSE rl[k]]]
    ELSE IF rl[identifier].count >= maxRequests
    THEN [allowed |-> FALSE, store |-> rl]
    ELSE [allowed |-> TRUE,
          store |-> [rl EXCEPT ![identifier].count = @ + 1]]

\* The record of the calls checkRateLimit admitted for one key.  Windows
\* are counted from the record alone: a window starts with an admitted
\* call and lasts window ms; the first call admitted after it has elapsed
\* starts the next one.  start = when the current window started, n = the
\* calls admitted in it, last = when the latest call was admitted, before =
\* when the latest call of the previous window was admitted.
Record(log, identifier, allowed, window, t) ==
    IF ~allowed THEN log
    ELSE [k \in DOMAIN log \cup {identifier} |->
             IF k # identifier THEN log[k]
             ELSE IF k \notin DOMAIN log
             THEN [start |-> t, n |-> 1, last |-> t]
             ELSE IF t > log[k].start + window
             THEN [start |-> t, n |-> 1, last |-> t, before |-> log[k].last]
             ELSE [log[k] EXCEPT !.n = @ + 1, !.last = t]]

\* cleanupRateLimits removing the entries from their resetAt on
cleanupRateLimitsAtReset(rl, t) ==
    [k \in {x \in DOMAIN rl : ~(t >= rl[x].resetAt)} |-> rl[k]]

\* cleanupRateLimits: the map afterwards
cleanupRateLimits(rl, t) ==
    [k \in {x \in DOMAIN rl : ~(t > rl[x].resetAt)} |-> rl[k]]

-----------------------------------------------------------------------------
(* storage.ts *)

MapDelete(m, k) == [x \in DOMAIN m \ {k} |-> m[x]]
MapSet(m, k, v) == [x \in DOMAIN m \cup {k} |-> IF x = k THEN v ELSE m[x]]

\* if (session.link): the field is present and not the empty string
HasLink(session) == "link" \in DOMAIN session /\ session.link # <<>>

\* createSession: the map afterwards (the timer is set by the caller below)
createSession(store, sessionId, expiresAt, t) ==
    MapSet(store, sessionId, [expiresAt |-> expiresAt, createdAt |-> t])

\* The auto-cleanup timer set with no delay
evictTimerNow(sessionId, expiresAt, t) == [id |-> sessionId, due |-> t]

\* setTimeout(() => memoryStore.delete(sessionId), expiresAt - Date.now())
evictTimer(sessionId, expiresAt, t) ==
    [id |-> sessionId, due |-> t + (expiresAt - t)]

\* getSession answering null for an expired session without deleting it
getSessionNoDelete(store, sessionId, t) ==
    IF sessionId \notin DOMAIN store
    THEN [found |-> FALSE, store |-> store]
    ELSE IF t > store[sessionId].expiresAt
    THEN [found |-> FALSE, store |-> store]
    ELSE [found |-> TRUE, store |-> store]

\* getSession: found = a session is returned (it is the stored object
\* store[sessionId]); store = the map afterwards
getSession(store, sessionId, t) ==
    IF sessionId \notin DOMAIN store
    THEN [found |-> FALSE, store |-> store]
    ELSE IF t > store[sessionId].expiresAt
    THEN [found |-> FALSE, store |-> MapDelete(store, sessionId)]
    ELSE [found |-> TRUE, store |-> store]

\* storeLink writing the link into every session of the map
storeLinkEverywhere(store, sessionId, link, t) ==
    IF sessionId \notin DOMAIN store
    THEN [ok |-> FALSE, store |-> store]
    ELSE IF t > store[sessionId].expiresAt
    THEN [ok |-> FALSE, store |-> MapDelete(store, sessionId)]
    ELSE [ok |-> TRUE,
          store |-> [x \in DOMAIN store |->
                        [link |-> link,
                         expiresAt |-> store[x].expiresAt,
                         createdAt |-> store[x].createdAt]]]

\* storeLink giving the session a new lifetime from the time of the write
storeLinkExtend(store, sessionId, link, t) ==
    IF sessionId \notin DOMAIN store
    THEN [ok |-> FALSE, store |-> store]
    ELSE IF t > store[sessionId].expiresAt
    THEN [ok |-> FALSE, store |-> MapDelete(store, sessionId)]
    ELSE [ok |-> TRUE,
          store |-> MapSet(store, sessionId,
                           [link |-> link,
                            expiresAt |-> t + sessionTtl,
                            createdAt |-> store[sessionId].createdAt])]

\* storeLink making the session when the map has none under the id
storeLinkUpsert(store, sessionId, link, t) ==
    IF sessionId \notin DOMAIN store
    THEN [ok |-> TRUE,
          store |-> MapSet(store, sessionId,
                           [link |-> link, expiresAt |-> t + sessionTtl, createdAt |-> t])]
    ELSE IF t > store[sessionId].expiresAt
    THEN [ok |-> FALSE, store |-> MapDelete(store, sessionId)]
    ELSE [ok |-> TRUE,
          store |-> MapSet(store, sessionId,
                           [link |-> link,
                            expiresAt |-> store[sessionId].expiresAt,
                            createdAt |-> store[sessionId].createdAt])]

\* storeLink: ok = the boolean returned; store = the map afterwards
storeLink(store, sessionId, link, t) ==
    IF sessionId \notin DOMAIN store
    THEN [ok |-> FALSE, store |-> store]
    ELSE IF t > store[sessionId].expiresAt
    THEN [ok |-> FALSE, store |-> MapDelete(store, sessionId)]
    ELSE [ok |-> TRUE,
          store |-> MapSet(store, sessionId,
                           [link |-> link,
                            expiresAt |-> store[sessionId].expiresAt,
                            createdAt |-> store[sessionId].createdAt])]

\* cleanupExpiredSessions removing the sessions from their expiresAt on
cleanupExpiredSessionsAtExpiry(store, t) ==
    [x \in {k \in DOMAIN store : ~(t >= store[k].expiresAt)} |-> store[x]]

\* cleanupExpiredSessions: the map afterwards
cleanupExpiredSessions(store, t) ==
    [x \in {k \in DOMAIN store : ~(t > store[k].expiresAt)} |-> store[x]]

\* deleteSession
deleteSession(store, sessionId) == MapDelete(store, sessionId)

\* utils: getSessionExpiration
getSessionExpiration(t) == t + sessionTtl

-----------------------------------------------------------------------------
(* Initial state: empty maps, no request started, no stream opened *)

Requests == {"r1", "r2"}
Creators == {"p1"}
Channels == {"c1"}
AllChannels == Channels \cup {"c2"}   \* with a second stream, opened where said

IdleReq == [pc |-> "idle"]
IdleCreate == [pc |-> "idle"]

\* Home before its mount effect has run: useState('loading'), useState(null)
PageInit == [mounted |-> FALSE, state |-> "loading", session |-> "none",
             receivedLink |-> "none", error |-> "none", eventSource |-> "none",
             fetching |-> 0, obtained |-> 0, pending |-> {}, open |-> {}]
IdleChan == [pc |-> "idle"]

Init ==
    /\ now = 0
    /\ memoryStore = <<>>
    /\ evictTimers = {}
    /\ rateLimitStore = <<>>
    /\ issued = {}
    /\ reqs = [r \in Requests |-> IdleReq]
    /\ creates = [k \in Creators |-> IdleCreate]
    /\ chans = [c \in AllChannels |-> IdleChan]
    /\ admitted = <<>>
    /\ page = PageInit

\* Date.now() moves on to a later instant
Tick(instants) ==
    /\ \E t \in instants : t > now /\ now' = t
    /\ UNCHANGED <<memoryStore, evictTimers, rateLimitStore, issued, reqs, creates, chans, admitted, page>>

\* The auto-cleanup callback of createSession runs, at its due time or later
EvictFire ==
    \E tm \in evictTimers :
        /\ now >= tm.due
        /\ memoryStore' = MapDelete(memoryStore, tm.id)
        /\ evictTimers' = evictTimers \ {tm}
        /\ UNCHANGED <<now, rateLimitStore, issued, reqs, creates, chans, admitted, page>>

\* cleanupExpiredSessions is called (by a background task: the source has
\* the function and no caller)
CleanupSessions ==
    /\ memoryStore' = cleanupExpiredSessions(memoryStore, now)
    /\ memoryStore' # memoryStore
    /\ UNCHANGED <<now, evictTimers, rateLimitStore, issued, reqs, creates, chans, admitted, page>>

\* The setInterval callback of rate-limiter.ts runs
Sweep ==
    /\ rateLimitStore' = cleanupRateLimits(rateLimitStore, now)
    /\ rateLimitStore' # rateLimitStore
    /\ UNCHANGED <<now, memoryStore, evictTimers, issued, reqs, creates, chans, admitted, page>>

-----------------------------------------------------------------------------
(* POST /api/session *)

\* x-forwarded-for, already split at ","; <<>> when the header is absent
ForwardedValues == { <<>>, <<"10.0.0.1">>, <<"10.0.0.1", "10.0.0.2">> }

\* forwarded ? forwarded.split(',')[0] : 'unknown'
ClientIp(forwarded) == IF forwarded = <<>> THEN "unknown" ELSE forwarded[1]

\* The handler keying the creation limiter in the submit route's key space
PostSessionSubmitPrefix(k, forwarded, id) ==
    /\ creates[k].pc = "idle"
    /\ id \notin issued
    /\ LET rl == checkRateLimit(rateLimitStore, "submit-" \o ClientIp(forwarded),
                                sessionMaxRequests, windowMs, now)
           expiresAt == getSessionExpiration(now)
       IN  /\ rateLimitStore' = rl.store
           /\ admitted' = Record(admitted, "submit-" \o ClientIp(forwarded), rl.allowed, windowMs, now)
           /\ IF ~rl.allowed
              THEN /\ creates' = [creates EXCEPT ![k] =
                          [pc |-> "done", status |-> 429,
                           error |-> "Too many requests. Please try again later."]]
                   /\ UNCHANGED <<memoryStore, evictTimers, issued>>
              ELSE /\ issued' = issued \cup {id}
                   /\ memoryStore' = createSession(memoryStore, id, expiresAt, now)
                   /\ evictTimers' = evictTimers \cup {evictTimer(id, expiresAt, now)}
                   /\ creates' = [creates EXCEPT ![k] =
                          [pc |-> "done", status |-> 200,
                           sessionId |-> id, expiresAt |-> expiresAt]]
    /\ UNCHANGED <<now, reqs, chans, page>>

\* The handler creating the session before it looks at the limiter's answer
PostSessionCreateFirst(k, forwarded, id) ==
    /\ creates[k].pc = "idle"
    /\ id \notin issued
    /\ LET rl == checkRateLimit(rateLimitStore, "session-" \o ClientIp(forwarded),
                                sessionMaxRequests, windowMs, now)
           expiresAt == getSessionExpiration(now)
       IN  /\ rateLimitStore' = rl.store
           /\ admitted' = Record(admitted, "session-" \o ClientIp(forwarded), rl.allowed, windowMs, now)
           /\ issued' = issued \cup {id}
           /\ memoryStore' = createSession(memoryStore, id, expiresAt, now)
           /\ evictTimers' = evictTimers \cup {evictTimer(id, expiresAt, now)}
           /\ creates' = [creates EXCEPT ![k] =
                  IF ~rl.allowed
                  THEN [pc |-> "done", status |-> 429,
                        error |-> "Too many requests. Please try again later."]
                  ELSE [pc |-> "done", status |-> 200,
                        sessionId |-> id, expiresAt |-> expiresAt]]
    /\ UNCHANGED <<now, reqs, chans, page>>

\* The whole handler: it has no suspension point before the store write
PostSession(k, forwarded, id) ==
    /\ creates[k].pc = "idle"
    /\ id \notin issued
    /\ LET rl == checkRateLimit(rateLimitStore, "session-" \o ClientIp(forwarded),
                                sessionMaxRequests, windowMs, now)
           expiresAt == getSessionExpiration(now)
       IN  /\ rateLimitStore' = rl.store
           /\ admitted' = Record(admitted, "session-" \o ClientIp(forwarded), rl.allowed, windowMs, now)
           /\ IF ~rl.allowed
              THEN /\ creates' = [creates EXCEPT ![k] =
                          [pc |-> "done", status |-> 429,
                           error |-> "Too many requests. Please try again later."]]
                   /\ UNCHANGED <<memoryStore, evictTimers, issued>>
              ELSE /\ issued' = issued \cup {id}
                   /\ memoryStore' = createSession(memoryStore, id, expiresAt, now)
                   /\ evictTimers' = evictTimers \cup {evictTimer(id, expiresAt, now)}
                   /\ creates' = [creates EXCEPT ![k] =
                          [pc |-> "done", status |-> 200,
                           sessionId |-> id, expiresAt |-> expiresAt]]
    /\ UNCHANGED <<now, reqs, chans, page>>

\* The response has been sent; the next request takes the slot
CreateReturn(k) ==
    /\ creates[k].pc = "done"
    /\ creates' = [creates EXCEPT ![k] = IdleCreate]
    /\ UNCHANGED <<now, memoryStore, evictTimers, rateLimitStore, issued, reqs, chans, admitted, page>>

-----------------------------------------------------------------------------
(* POST /api/submit/[sessionId] *)

\* Links a client may send.  LinkA and LinkB are well-formed.
LinkA == <<"h","t","t","p",":","/","/","a">>
LinkB == <<"h","t","t","p","s",":","/","/","b">>
LinkPadded == <<" ">> \o LinkA \o <<"\n">>
LinkJs == <<"j","a","v","a","s","c","r","i","p","t",":","x">>
LinkJsMixed == <<" ","J","a","v","a","S","c","r","i","p","t",":","x">>
LinkData == <<"d","a","t","a",":","x">>
LinkVb == <<"V","B","S","c","r","i","p","t",":","x">>
LinkJsTab == <<"j","a","v","a","\t","s","c","r","i","p","t",":","x">>
LinkJsNul == <<"NUL","j","a","v","a","s","c","r","i","p","t",":","x">>
LinkFtp == <<"f","t","p",":","/","/","h","/","x">>
LinkNoScheme == <<"a",".","b">>
LinkNoHost == <<"h","t","t","p",":","/","/">>
LinkBlank == <<" ", " ">>
\* A well-formed http URL one character longer than the documented maximum
LinkLong == LinkA \o [i \in 1..(maxUrlLength + 1 - Len(LinkA)) |-> "a"]

\* The value of body.link: a string, or something that is not a string
StringLinks == {LinkA, LinkB, LinkPadded, LinkJs, LinkJsMixed, LinkData, LinkVb,
                LinkJsTab, LinkJsNul, LinkFtp, LinkNoScheme, LinkNoHost, LinkBlank, <<>>}

\* What request.json() yields: a throw (the body is not JSON), or an object
\* whose link is a string, a number, or missing
AllBodies ==
    {[kind |-> "malformed", type |-> "undefined", link |-> <<>>],
     [kind |-> "object", type |-> "undefined", link |-> <<>>],
     [kind |-> "object", type |-> "number", link |-> <<"4","2">>]}
    \cup {[kind |-> "object", type |-> "string", link |-> l] : l \in StringLinks}

ValidBodies == {[kind |-> "object", type |-> "string", link |-> l] : l \in {LinkA, LinkB}}

Response(status, error) == [status |-> status, error |-> error]

\* Lines 21-48: the response the body is rejected with, or status 0 when the
\* link passes and the handler goes on to the session lookup
ValidateBody(body) ==
    IF body.kind = "malformed"
    THEN Response(500, "Failed to submit link")
    ELSE IF body.type # "string" \/ body.link = <<>>
    THEN Response(400, "Link is required")
    ELSE IF sanitizeUrl(body.link).threw
    THEN Response(400, "Invalid URL protocol")
    ELSE IF ~isValidUrl(sanitizeUrl(body.link).url)
    THEN Response(400, "Invalid URL format. Please provide a valid http or https URL.")
    ELSE Response(0, "")

\* What the lookup of line 51 is about to find (recorded with the request,
\* read by no action)
SessionState(store, sessionId, t) ==
    IF sessionId \notin DOMAIN store THEN "absent"
    ELSE IF t > store[sessionId].expiresAt THEN "expired"
    ELSE IF HasLink(store[sessionId]) THEN "hasValue"
    ELSE "fresh"

\* The request arrives: the rate limiter runs, then the handler awaits the body
SubmitStart(r, sessionId, body) ==
    /\ reqs[r].pc = "idle"
    /\ LET rl == checkRateLimit(rateLimitStore, "submit-" \o sessionId,
                                submitMaxRequests, windowMs, now)
       IN  /\ rateLimitStore' = rl.store
           /\ admitted' = Record(admitted, "submit-" \o sessionId, rl.allowed, windowMs, now)
           /\ reqs' = [reqs EXCEPT ![r] =
                  IF rl.allowed
                  THEN [pc |-> "body", sessionId |-> sessionId, body |-> body]
                  ELSE [pc |-> "done", sessionId |-> sessionId, body |-> body,
                        response |-> Response(429, "Too many requests. Please try again later.")]]
    /\ UNCHANGED <<now, memoryStore, evictTimers, issued, creates, chans, page>>

\* The handler looking the session up before it validates the link
SubmitValidateLookupFirst(r) ==
    /\ reqs[r].pc = "body"
    /\ LET req == reqs[r]
           rejected == ValidateBody(req.body)
           got == getSession(memoryStore, req.sessionId, now)
           seen == SessionState(memoryStore, req.sessionId, now)
       IN  /\ memoryStore' = got.store
           /\ reqs' = [reqs EXCEPT ![r] =
                  IF ~got.found
                  THEN [pc |-> "done", sessionId |-> req.sessionId,
                        body |-> req.body, seen |-> seen,
                        response |-> Response(404, "Session not found or expired")]
                  ELSE IF rejected.status # 0
                  THEN [pc |-> "done", sessionId |-> req.sessionId,
                        body |-> req.body, response |-> rejected]
                  ELSE [pc |-> "store", sessionId |-> req.sessionId,
                        body |-> req.body, seen |-> seen,
                        sanitizedUrl |-> sanitizeUrl(req.body.link).url]]
    /\ UNCHANGED <<now, evictTimers, rateLimitStore, issued, creates, chans, admitted, page>>

\* The handler giving a request back to the limiter when it rejects the body
SubmitValidateRefund(r) ==
    /\ reqs[r].pc = "body"
    /\ LET req == reqs[r]
           rejected == ValidateBody(req.body)
           got == getSession(memoryStore, req.sessionId, now)
           seen == SessionState(memoryStore, req.sessionId, now)
           k == "submit-" \o req.sessionId
       IN  IF rejected.status # 0
           THEN /\ reqs' = [reqs EXCEPT ![r] =
                       [pc |-> "done", sessionId |-> req.sessionId,
                        body |-> req.body, response |-> rejected]]
                /\ rateLimitStore' =
                       IF k \in DOMAIN rateLimitStore
                       THEN [rateLimitStore EXCEPT ![k].count = @ - 1]
                       ELSE rateLimitStore
                /\ UNCHANGED memoryStore
           ELSE /\ memoryStore' = got.store
                /\ UNCHANGED rateLimitStore
                /\ reqs' = [reqs EXCEPT ![r] =
                       IF got.found
                       THEN [pc |-> "store", sessionId |-> req.sessionId,
                             body |-> req.body, seen |-> seen,
                             sanitizedUrl |-> sanitizeUrl(req.body.link).url]
                       ELSE [pc |-> "done", sessionId |-> req.sessionId,
                             body |-> req.body, seen |-> seen,
                             response |-> Response(404, "Session not found or expired")]]
    /\ UNCHANGED <<now, evictTimers, issued, creates, chans, admitted, page>>

\* request.json() resolves; validation; getSession is called and awaited
SubmitValidate(r) ==
    /\ reqs[r].pc = "body"
    /\ LET req == reqs[r]
           rejected == ValidateBody(req.body)
           got == getSession(memoryStore, req.sessionId, now)
           seen == SessionState(memoryStore, req.sessionId, now)
       IN  IF rejected.status # 0
           THEN /\ reqs' = [reqs EXCEPT ![r] =
                       [pc |-> "done", sessionId |-> req.sessionId,
                        body |-> req.body, response |-> rejected]]
                /\ UNCHANGED memoryStore
           ELSE /\ memoryStore' = got.store
                /\ reqs' = [reqs EXCEPT ![r] =
                       IF got.found
                       THEN [pc |-> "store", sessionId |-> req.sessionId,
                             body |-> req.body, seen |-> seen,
                             sanitizedUrl |-> sanitizeUrl(req.body.link).url]
                       ELSE [pc |-> "done", sessionId |-> req.sessionId,
                             body |-> req.body, seen |-> seen,
                             response |-> Response(404, "Session not found or expired")]]
    /\ UNCHANGED <<now, evictTimers, rateLimitStore, issued, creates, chans, admitted, page>>

\* The handler resumes with the session: storeLink, then the response.
\* storedAt records when storeLink ran (read by no action).
SubmitStore(r) ==
    /\ reqs[r].pc = "store"
    /\ LET req == reqs[r]
           put == storeLink(memoryStore, req.sessionId, req.sanitizedUrl, now)
       IN  /\ memoryStore' = put.store
           /\ reqs' = [reqs EXCEPT ![r] =
                  [pc |-> "done", sessionId |-> req.sessionId,
                   body |-> req.body, seen |-> req.seen,
                   sanitizedUrl |-> req.sanitizedUrl, storedAt |-> now,
                   response |-> IF put.ok
                                THEN Response(200, "")
                                ELSE Response(500, "Failed to store link. Session may have expired.")]]
    /\ UNCHANGED <<now, evictTimers, rateLimitStore, issued, creates, chans, admitted, page>>

\* The response has been sent; the next request takes the slot
SubmitReturn(r) ==
    /\ reqs[r].pc = "done"
    /\ reqs' = [reqs EXCEPT ![r] = IdleReq]
    /\ UNCHANGED <<now, memoryStore, evictTimers, rateLimitStore, issued, creates, chans, admitted, page>>

-----------------------------------------------------------------------------
(* GET /api/listen/[sessionId] *)

ConnectedEvent(sessionId) == [type |-> "connected", sessionId |-> sessionId]
LinkEvent(link) == [type |-> "link", link |-> link]
TimeoutEvent == [type |-> "timeout", message |-> "Session expired"]
NotFoundEvent == [type |-> "error", message |-> "Session not found or expired"]

\* sendMessage without the controller.close() that follows it
SendNoClose(ch, ev) ==
    IF ch.pc = "watching"
    THEN [ch EXCEPT !.events = Append(@, ev)]
    ELSE [ch EXCEPT !.faults = @ + 1]

\* sendMessage(ev); controller.close(); return.  Once the observer has
\* cancelled the stream, controller.enqueue throws; the catch block calls
\* sendMessage again, which throws out of poll: nothing is sent and the
\* rejection is unhandled.
SendAndClose(ch, ev) ==
    IF ch.pc = "watching"
    THEN [ch EXCEPT !.events = Append(@, ev), !.pc = "closed"]
    ELSE [ch EXCEPT !.faults = @ + 1]

\* poll setting two timers for its next run
SchedulePollTwice(ch, t) == [ch EXCEPT !.timers = @ \cup {t + pollInterval, t + pollInterval + 1}]

\* setTimeout(poll, pollInterval)
SchedulePoll(ch, t) == [ch EXCEPT !.timers = @ \cup {t + pollInterval}]

\* poll looking the session up, and sending its link, before the check of
\* lines 30-34
PollLinkFirst(ch, store, t) ==
    LET got == getSession(store, ch.sessionId, t)
        elapsed == t - ch.startTime
    IN  IF got.found /\ HasLink(got.store[ch.sessionId])
        THEN [chan |-> SendAndClose(ch, LinkEvent(got.store[ch.sessionId].link)),
              store |-> got.store]
        ELSE IF elapsed > maxDuration
        THEN [chan |-> SendAndClose(ch, TimeoutEvent), store |-> got.store]
        ELSE IF ~got.found
        THEN [chan |-> IF elapsed > graceMs
                       THEN SendAndClose(ch, NotFoundEvent)
                       ELSE SchedulePoll(ch, t),
              store |-> got.store]
        ELSE [chan |-> SchedulePoll(ch, t), store |-> got.store]

\* poll reporting an absent session at once, without the 3 s of grace
PollNoGrace(ch, store, t) ==
    LET got == getSession(store, ch.sessionId, t)
    IN  IF t - ch.startTime > maxDuration
        THEN [chan |-> SendAndClose(ch, TimeoutEvent), store |-> store]
        ELSE IF ~got.found
        THEN [chan |-> SendAndClose(ch, NotFoundEvent), store |-> got.store]
        ELSE IF HasLink(got.store[ch.sessionId])
        THEN [chan |-> SendAndClose(ch, LinkEvent(got.store[ch.sessionId].link)),
              store |-> got.store]
        ELSE [chan |-> SchedulePoll(ch, t), store |-> got.store]

\* poll without the check of lines 30-34
PollNoTimeout(ch, store, t) ==
    LET got == getSession(store, ch.sessionId, t)
        elapsed == t - ch.startTime
    IN  IF ~got.found
        THEN [chan |-> IF elapsed > graceMs
                       THEN [ch EXCEPT !.events = Append(@, NotFoundEvent), !.pc = "closed"]
                       ELSE [ch EXCEPT !.timers = @ \cup {t + pollInterval}],
              store |-> got.store]
        ELSE IF HasLink(got.store[ch.sessionId])
        THEN [chan |-> [ch EXCEPT !.events = Append(@, LinkEvent(got.store[ch.sessionId].link)),
                                  !.pc = "closed"],
              store |-> got.store]
        ELSE [chan |-> [ch EXCEPT !.timers = @ \cup {t + pollInterval}], store |-> got.store]

\* poll without the check of lines 54-58
PollNoLink(ch, store, t) ==
    LET got == getSession(store, ch.sessionId, t)
        elapsed == t - ch.startTime
    IN  IF t - ch.startTime > maxDuration
        THEN [chan |-> [ch EXCEPT !.events = Append(@, TimeoutEvent), !.pc = "closed"],
              store |-> store]
        ELSE IF ~got.found
        THEN [chan |-> IF elapsed > graceMs
                       THEN [ch EXCEPT !.events = Append(@, NotFoundEvent), !.pc = "closed"]
                       ELSE [ch EXCEPT !.timers = @ \cup {t + pollInterval}],
              store |-> got.store]
        ELSE [chan |-> [ch EXCEPT !.timers = @ \cup {t + pollInterval}], store |-> got.store]

\* poll sending the link of whichever session holds one
PollAnyLink(ch, store, t) ==
    LET got == getSession(store, ch.sessionId, t)
        elapsed == t - ch.startTime
        holders == {id \in DOMAIN got.store : HasLink(got.store[id])}
    IN  IF t - ch.startTime > maxDuration
        THEN [chan |-> SendAndClose(ch, TimeoutEvent), store |-> store]
        ELSE IF ~got.found
        THEN [chan |-> IF elapsed > graceMs
                       THEN SendAndClose(ch, NotFoundEvent)
                       ELSE SchedulePoll(ch, t),
              store |-> got.store]
        ELSE IF holders # {}
        THEN [chan |-> SendAndClose(ch, LinkEvent(got.store[CHOOSE id \in holders : TRUE].link)),
              store |-> got.store]
        ELSE [chan |-> SchedulePoll(ch, t), store |-> got.store]

\* One run of poll at time t: the stream and the session map afterwards
Poll(ch, store, t) ==
    LET got == getSession(store, ch.sessionId, t)
        elapsed == t - ch.startTime
    IN  IF t - ch.startTime > maxDuration
        THEN [chan |-> SendAndClose(ch, TimeoutEvent), store |-> store]
        ELSE IF ~got.found
        THEN [chan |-> IF elapsed > graceMs
                       THEN SendAndClose(ch, NotFoundEvent)
                       ELSE SchedulePoll(ch, t),
              store |-> got.store]
        ELSE IF HasLink(got.store[ch.sessionId])
        THEN [chan |-> SendAndClose(ch, LinkEvent(got.store[ch.sessionId].link)),
              store |-> got.store]
        ELSE [chan |-> SchedulePoll(ch, t), store |-> got.store]

\* start(controller) running the first poll before it sends the connected
\* message
OpenChannelPollFirst(c, sessionId) ==
    /\ chans[c].pc = "idle"
    /\ LET opened == [pc |-> "watching", sessionId |-> sessionId, startTime |-> now,
                      events |-> <<>>, timers |-> {}, faults |-> 0]
           res == Poll(opened, memoryStore, now)
       IN  /\ chans' = [chans EXCEPT ![c] =
                  IF res.chan.pc = "watching"
                  THEN [res.chan EXCEPT !.events = Append(@, ConnectedEvent(sessionId))]
                  ELSE [res.chan EXCEPT !.faults = @ + 1]]
           /\ memoryStore' = res.store
    /\ UNCHANGED <<now, evictTimers, rateLimitStore, issued, reqs, creates, admitted, page>>

\* start(controller): the connected message, then the first poll
OpenChannel(c, sessionId) ==
    /\ chans[c].pc = "idle"
    /\ LET opened == [pc |-> "watching", sessionId |-> sessionId, startTime |-> now,
                      events |-> <<ConnectedEvent(sessionId)>>, timers |-> {},
                      faults |-> 0]
           res == Poll(opened, memoryStore, now)
       IN  /\ chans' = [chans EXCEPT ![c] = res.chan]
           /\ memoryStore' = res.store
    /\ UNCHANGED <<now, evictTimers, rateLimitStore, issued, reqs, creates, admitted, page>>

\* A poll timer fires, at its due time or later
PollFire(c) ==
    /\ chans[c].pc # "idle"
    /\ \E due \in chans[c].timers :
        /\ now >= due
        /\ LET res == Poll([chans[c] EXCEPT !.timers = @ \ {due}], memoryStore, now)
           IN  /\ chans' = [chans EXCEPT ![c] = res.chan]
               /\ memoryStore' = res.store
    /\ UNCHANGED <<now, evictTimers, rateLimitStore, issued, reqs, creates, admitted, page>>

\* The observer disconnects: cancel() logs and does nothing else
Cancel(c) ==
    /\ chans[c].pc = "watching"
    /\ chans' = [chans EXCEPT ![c].pc = "cancelled"]
    /\ UNCHANGED <<now, memoryStore, evictTimers, rateLimitStore, issued, reqs, creates, admitted, page>>

-----------------------------------------------------------------------------
(* The system: one desktop creating a session, submitters, one stream *)

NewIds == {"s1"}
Instants == InstantsAt({0, pollInterval, graceMs, sessionTtl})

OneBody == [kind |-> "object", type |-> "string", link |-> LinkA]

Next ==
    \/ Tick(Instants)
    \/ EvictFire
    \/ \E id \in NewIds : PostSession("p1", <<"10.0.0.1">>, id)
    \/ \E id \in NewIds : SubmitStart("r1", id, OneBody)
    \/ SubmitValidate("r1")
    \/ SubmitStore("r1")
    \/ \E c \in Channels, id \in SessionIds : OpenChannel(c, id)
    \/ \E c \in Channels : PollFire(c)
    \/ \E c \in Channels : Cancel(c)

Spec == Init /\ [][Next]_vars

-----------------------------------------------------------------------------
(* Two submitters racing on one session, no stream *)

InstantsRace == InstantsAt({0, sessionTtl})

NextRace ==
    \/ Tick(InstantsRace)
    \/ EvictFire
    \/ \E id \in NewIds : PostSession("p1", <<"10.0.0.1">>, id)
    \/ \E r \in Requests, id \in SessionIds, b \in ValidBodies : SubmitStart(r, id, b)
    \/ \E r \in Requests : SubmitValidate(r)
    \/ \E r \in Requests : SubmitStore(r)

SpecRace == Init /\ [][NextRace]_vars

-----------------------------------------------------------------------------
(* The system under fair scheduling: the clock keeps advancing and the     *)
(* event loop runs every timer that is due.  A stream is opened only while *)
(* the model's clock can still reach the poll scheduled at the stream's    *)
(* 5-minute bound.                                                         *)

InstantsLive == InstantsAt({0, graceMs, sessionTtl, sessionTtl + pollInterval})
LastInstant == CHOOSE t \in InstantsLive : \A u \in InstantsLive : u <= t

NextLive ==
    \/ Tick(InstantsLive)
    \/ EvictFire
    \/ \E id \in NewIds : PostSession("p1", <<"10.0.0.1">>, id)
    \/ \E id \in NewIds : SubmitStart("r1", id, OneBody)
    \/ SubmitValidate("r1")
    \/ SubmitStore("r1")
    \/ \E c \in Channels, id \in SessionIds :
          now + maxDuration + pollInterval <= LastInstant /\ OpenChannel(c, id)
    \/ \E c \in Channels : PollFire(c)

SpecLive ==
    /\ Init
    /\ [][NextLive]_vars
    /\ WF_vars(Tick(InstantsLive))
    /\ \A c \in Channels : WF_vars(PollFire(c))

-----------------------------------------------------------------------------
(* One submitter sending request after request, every kind of body *)

InstantsSubmit == InstantsAt({0, windowMs})

NextSubmit ==
    \/ Tick(InstantsSubmit)
    \/ \E id \in NewIds : PostSession("p1", <<"10.0.0.1">>, id)
    \/ \E id \in NewIds, b \in AllBodies : SubmitStart("r1", id, b)
    \/ SubmitValidate("r1")
    \/ SubmitStore("r1")
    \/ SubmitReturn("r1")

SpecSubmit == Init /\ [][NextSubmit]_vars

-----------------------------------------------------------------------------
(* One submitter sending request after request, short and over-long links *)

LongBodies == {OneBody, [kind |-> "object", type |-> "string", link |-> LinkLong]}

NextLong ==
    \/ Tick(InstantsAt({0}))
    \/ \E id \in NewIds : PostSession("p1", <<"10.0.0.1">>, id)
    \/ \E id \in NewIds, b \in LongBodies : SubmitStart("r1", id, b)
    \/ SubmitValidate("r1")
    \/ SubmitStore("r1")
    \/ SubmitReturn("r1")

SpecLong == Init /\ [][NextLong]_vars

-----------------------------------------------------------------------------
(* The rate limiter under load: request after request on two limiter keys, *)
(* across a window boundary, with the periodic sweep.  No session exists,  *)
(* so every admitted request ends at the session lookup.                   *)

NextLimiter ==
    \/ Tick(InstantsSubmit)
    \/ Sweep
    \/ \E id \in SessionIds : SubmitStart("r1", id, OneBody)
    \/ SubmitValidate("r1")
    \/ SubmitReturn("r1")

SpecLimiter == Init /\ [][NextLimiter]_vars

-----------------------------------------------------------------------------
(* One address creating session after session, across a window boundary.   *)
(* generateSessionId returns the ids of CreateIds in turn.                 *)

CreateIds == [i \in 1..(2 * sessionMaxRequests + 1) |-> "n" \o ToString(i)]
NextId == CreateIds[Cardinality(issued) + 1]

NextCreate ==
    \/ Tick(InstantsSubmit)
    \/ Sweep
    \/ \E f \in {<<"10.0.0.1">>, <<"10.0.0.1", "10.0.0.2">>} : PostSession("p1", f, NextId)
    \/ CreateReturn("p1")

SpecCreate == Init /\ [][NextCreate]_vars

-----------------------------------------------------------------------------
(* Two streams on one session, one submitter *)

NextObservers ==
    \/ Tick(InstantsAt({0, pollInterval}))
    \/ \E id \in NewIds : PostSession("p1", <<"10.0.0.1">>, id)
    \/ \E id \in NewIds : SubmitStart("r1", id, OneBody)
    \/ SubmitValidate("r1")
    \/ SubmitStore("r1")
    \/ \E c \in AllChannels, id \in NewIds : OpenChannel(c, id)
    \/ \E c \in AllChannels : PollFire(c)

SpecObservers == Init /\ [][NextObservers]_vars

-----------------------------------------------------------------------------
(* Both limiter scopes under load, with addresses and session ids chosen   *)
(* by the clients to look like each other's keys, all within one instant   *)

ScopeIps == {"s1", "submit-s1"}
ScopeIds == {"s1", "session-s1"}

NextScopes ==
    \/ \E ip \in ScopeIps : PostSession("p1", <<ip>>, NextId)
    \/ CreateReturn("p1")
    \/ \E id \in ScopeIds : SubmitStart("r1", id, OneBody)
    \/ SubmitValidate("r1")
    \/ SubmitReturn("r1")

SpecScopes == Init /\ [][NextScopes]_vars

-----------------------------------------------------------------------------
(* Two sessions, a submitter and a stream, with the session sweep running  *)
(* at any moment                                                           *)

NextSweep ==
    \/ Tick(InstantsRace)
    \/ EvictFire
    \/ CleanupSessions
    \/ \E id \in SessionIds : PostSession("p1", <<"10.0.0.1">>, id)
    \/ CreateReturn("p1")
    \/ \E id \in SessionIds : SubmitStart("r1", id, OneBody)
    \/ SubmitValidate("r1")
    \/ SubmitStore("r1")
    \/ \E id \in SessionIds : OpenChannel("c1", id)
    \/ PollFire("c1")

SpecSweep == Init /\ [][NextSweep]_vars

-----------------------------------------------------------------------------
(* Two sessions, one submitter sending accepted and rejected links to      *)
(* either, a second one sending its own link to the first session, one    *)
(* stream; the responses are kept                                          *)

RelayBodies == {[kind |-> "object", type |-> "string", link |-> l] :
                   l \in {LinkPadded, LinkJs}}

NextRelay ==
    \/ Tick(InstantsAt({pollInterval}))
    \/ \E id \in SessionIds : PostSession("p1", <<"10.0.0.1">>, id)
    \/ CreateReturn("p1")
    \/ \E id \in SessionIds, b \in RelayBodies : SubmitStart("r1", id, b)
    \/ SubmitStart("r2", "s1", [kind |-> "object", type |-> "string", link |-> LinkB])
    \/ \E r \in Requests : SubmitValidate(r)
    \/ \E r \in Requests : SubmitStore(r)
    \/ \E id \in SessionIds : OpenChannel("c1", id)
    \/ PollFire("c1")

SpecRelay == Init /\ [][NextRelay]_vars

-----------------------------------------------------------------------------
(* The desktop page (Home in page.tsx).  An EventSource is named by the    *)
(* session it listens to.  page.eventSource is the eventSource state as    *)
(* the latest render holds it; page.open are the EventSources that are     *)
(* open; page.pending are the setTimeout callbacks of listenForLink that   *)
(* have not run; page.fetching counts the calls of createNewSession that   *)
(* await their response.  The server is the environment: an open           *)
(* EventSource may receive any message, or fail.                           *)

MaxPageSessions == 3

\* The ids POST /api/session answers with, in order
PageIds == [i \in 1..MaxPageSessions |-> "q" \o ToString(i)]

\* createNewSession up to its await fetch: setState('loading'),
\* setError(null), setReceivedLink(null), close the EventSource of the
\* eventSource state
createNewSession(pg) ==
    [pg EXCEPT !.mounted = TRUE,
               !.state = "loading",
               !.error = "none",
               !.receivedLink = "none",
               !.open = @ \ {pg.eventSource},
               !.fetching = @ + 1]

\* listenForLink: setState('waiting'), setTimeout(..., 100)
listenForLink(pg, sessionId, t) ==
    [pg EXCEPT !.state = "waiting",
               !.pending = @ \cup {[id |-> sessionId, due |-> t + openDelay]}]

\* es.onmessage
onmessage(pg, es, type) ==
    IF type = "link"
    THEN [pg EXCEPT !.receivedLink = es, !.state = "received", !.open = @ \ {es}]
    ELSE IF type = "timeout"
    THEN [pg EXCEPT !.error = "Session expired. Please generate a new code.",
                    !.state = "error", !.open = @ \ {es}]
    ELSE IF type = "error"
    THEN [pg EXCEPT !.error = NotFoundEvent.message,
                    !.state = "error", !.open = @ \ {es}]
    ELSE pg

\* es.onerror
onerror(pg, es) ==
    [pg EXCEPT !.error = "Connection lost. Please generate a new code.",
               !.state = "error", !.open = @ \ {es}]

\* useEffect(() => { createNewSession(); ... }, [])
PageMount ==
    /\ ~page.mounted
    /\ page' = createNewSession(page)
    /\ UNCHANGED <<now, memoryStore, evictTimers, rateLimitStore, issued, reqs, creates,
                   chans, admitted>>

\* onClick={createNewSession}: Generate New Code, Share Another Link, Try
\* Again; the loading view has no button
PageClick ==
    /\ page.mounted
    /\ page.state \in {"waiting", "received", "error"}
    /\ page.obtained + page.fetching < MaxPageSessions
    /\ page' = createNewSession(page)
    /\ UNCHANGED <<now, memoryStore, evictTimers, rateLimitStore, issued, reqs, creates,
                   chans, admitted>>

\* createNewSession resumes with an ok response: setSession(data),
\* setState('ready'), listenForLink(data.sessionId)
PageFetchOk ==
    /\ page.fetching > 0
    /\ LET id == PageIds[page.obtained + 1]
       IN  page' = listenForLink([page EXCEPT !.session = id,
                                              !.fetching = @ - 1,
                                              !.obtained = @ + 1], id, now)
    /\ UNCHANGED <<now, memoryStore, evictTimers, rateLimitStore, issued, reqs, creates,
                   chans, admitted>>

\* createNewSession resumes with a response that is not ok, or fetch
\* rejects: the catch block sets the error state
PageFetchFail ==
    /\ page.fetching > 0
    /\ page' = [page EXCEPT !.error = "Failed to create session. Please try again.",
                            !.state = "error", !.fetching = @ - 1]
    /\ UNCHANGED <<now, memoryStore, evictTimers, rateLimitStore, issued, reqs, creates,
                   chans, admitted>>

\* The callback of listenForLink's setTimeout: new EventSource(...), the
\* handlers, setEventSource(es)
PageOpenTimer ==
    /\ \E tm \in page.pending :
          /\ now >= tm.due
          /\ page' = [page EXCEPT !.pending = @ \ {tm},
                                  !.open = @ \cup {tm.id},
                                  !.eventSource = tm.id]
    /\ UNCHANGED <<now, memoryStore, evictTimers, rateLimitStore, issued, reqs, creates,
                   chans, admitted>>

\* A message arrives on an open EventSource
PageMessage(es, type) ==
    /\ es \in page.open
    /\ page' = onmessage(page, es, type)
    /\ UNCHANGED <<now, memoryStore, evictTimers, rateLimitStore, issued, reqs, creates,
                   chans, admitted>>

\* The connection of an open EventSource fails
PageError(es) ==
    /\ es \in page.open
    /\ page' = onerror(page, es)
    /\ UNCHANGED <<now, memoryStore, evictTimers, rateLimitStore, issued, reqs, creates,
                   chans, admitted>>

NextPage ==
    \/ Tick(InstantsAt({0, openDelay, 2 * openDelay}))
    \/ PageMount
    \/ PageClick
    \/ PageFetchOk
    \/ PageFetchFail
    \/ PageOpenTimer
    \/ \E es \in page.open, type \in {"link", "timeout", "error"} : PageMessage(es, type)
    \/ \E es \in page.open : PageError(es)

SpecPage == Init /\ [][NextPage]_vars

-----------------------------------------------------------------------------
(* The session store called directly, in any order and on any id, with its *)
(* eviction timers                                                         *)

StoreCreate(id) ==
    /\ memoryStore' = createSession(memoryStore, id, getSessionExpiration(now), now)
    /\ evictTimers' = evictTimers \cup {evictTimer(id, getSessionExpiration(now), now)}
    /\ UNCHANGED <<now, rateLimitStore, issued, reqs, creates, chans, admitted, page>>

StoreGet(id) ==
    /\ memoryStore' = getSession(memoryStore, id, now).store
    /\ UNCHANGED <<now, evictTimers, rateLimitStore, issued, reqs, creates, chans, admitted, page>>

StoreLink(id) ==
    /\ memoryStore' = storeLink(memoryStore, id, LinkA, now).store
    /\ UNCHANGED <<now, evictTimers, rateLimitStore, issued, reqs, creates, chans, admitted, page>>

StoreDelete(id) ==
    /\ memoryStore' = deleteSession(memoryStore, id)
    /\ UNCHANGED <<now, evictTimers, rateLimitStore, issued, reqs, creates, chans, admitted, page>>

NextStore ==
    \/ Tick(InstantsRace)
    \/ \E id \in SessionIds : StoreGet(id)
    \/ \E id \in SessionIds : StoreDelete(id)
    \/ EvictFire
    \/ \E id \in SessionIds : StoreCreate(id)
    \/ \E id \in SessionIds : StoreLink(id)

SpecStore == Init /\ [][NextStore]_vars

-----------------------------------------------------------------------------
(* Claims *)

Done(r) == reqs[r].pc = "done"
Succeeded(r) == Done(r) /\ reqs[r].response.status = 200

\* C1: a session's link is write-once: in no step does a link that is set
\* change, and a storeLink on a session that already has a link does not
\* succeed (first writer wins).
C1_WriteOnce ==
    [][/\ \A id \in DOMAIN memoryStore :
             (HasLink(memoryStore[id]) /\ id \in DOMAIN memoryStore')
                 => memoryStore'[id].link = memoryStore[id].link
       /\ \A r \in Requests :
             (/\ reqs[r].pc = "store"
              /\ reqs'[r].pc = "done"
              /\ reqs[r].sessionId \in DOMAIN memoryStore
              /\ HasLink(memoryStore[reqs[r].sessionId]))
                 => reqs'[r].response.status # 200]_vars

\* C2: at most one submission ever succeeds per session: no two requests
\* for the same session id both end with Success.
C2_AtMostOneSuccess ==
    \A r1, r2 \in Requests :
        (r1 # r2 /\ Succeeded(r1) /\ Succeeded(r2))
            => reqs[r1].sessionId # reqs[r2].sessionId

\* C10: a request with a valid link that passed the limiter ends with the
\* generic 404 whenever its session lookup met a session that never existed
\* (or is gone), has expired, or already holds a value.
C10_SameNotFound ==
    \A r \in Requests :
        (Done(r) /\ "seen" \in DOMAIN reqs[r]
                 /\ reqs[r].seen \in {"absent", "expired", "hasValue"})
            => reqs[r].response = Response(404, "Session not found or expired")

\* The session POST /session created, as its response reports it
Created(id) ==
    /\ creates["p1"].pc = "done"
    /\ creates["p1"].status = 200
    /\ creates["p1"].sessionId = id
CreatedAt == creates["p1"].expiresAt - sessionTtl

TerminalTypes == {"link", "timeout", "error"}

\* C3: on every stream the first event is connected, at most one further
\* event is sent and it is link, timeout or error; the stream is closed
\* exactly when that event has been sent, a closed stream has no poll
\* scheduled, and a stream still watched always has its next poll scheduled.
C3_OneTerminalEvent ==
    \A c \in Channels :
        chans[c].pc # "idle" =>
            LET ch == chans[c]
            IN  /\ Len(ch.events) \in {1, 2}
                /\ ch.events[1] = ConnectedEvent(ch.sessionId)
                /\ Len(ch.events) = 2 => ch.events[2].type \in TerminalTypes
                /\ ch.pc = "closed" <=> Len(ch.events) = 2
                /\ ch.pc = "closed" => ch.timers = {}
                /\ ch.pc = "watching" => Cardinality(ch.timers) = 1

C3_Witness ==
    \E c \in Channels :
        /\ chans[c].pc = "closed"
        /\ chans[c].events = <<ConnectedEvent("s1"), TimeoutEvent>>

\* C5: a stream opened at or after the creation of a session that never
\* receives a value, and whose observer stays connected, ends with exactly
\* connected, timeout.
C5_TimeoutOnly ==
    \A c \in Channels :
        (/\ chans[c].pc = "closed"
         /\ Created(chans[c].sessionId)
         /\ chans[c].startTime >= CreatedAt
         /\ \A r \in Requests :
               ~(Succeeded(r) /\ reqs[r].sessionId = chans[c].sessionId))
            => chans[c].events = <<ConnectedEvent(chans[c].sessionId), TimeoutEvent>>

\* C7: once now >= expiresAt, getSession returns absent for a stored session,
\* whether or not the eviction timer has fired.
C7_ExpiredAbsent ==
    \A id \in DOMAIN memoryStore :
        now >= memoryStore[id].expiresAt => ~getSession(memoryStore, id, now).found

\* C4: under fair timers every stream that is opened eventually sends a
\* terminal event and is closed, with no poll left scheduled, and no poll
\* that runs more than 5 minutes after the stream was opened schedules
\* another poll.
Terminal(c) ==
    /\ chans[c].pc = "closed"
    /\ chans[c].timers = {}
    /\ chans[c].events[Len(chans[c].events)].type \in TerminalTypes

C4_Terminates ==
    /\ \A c \in Channels : (chans[c].pc = "watching") ~> Terminal(c)
    /\ [][\A c \in Channels :
            (chans[c].pc # "idle" /\ now - chans[c].startTime > maxDuration)
                => chans'[c].timers \subseteq chans[c].timers]_vars

C4_Witness ==
    \E c \in Channels :
        /\ chans[c].pc = "closed"
        /\ now - chans[c].startTime > maxDuration
        /\ chans[c].events[2] = TimeoutEvent

\* C6: when a stream is opened at the creation of a session and a link is
\* stored in the session within 3 seconds, the first poll after the store
\* write, run at most one poll interval after it, sends the link event with
\* the stored link as the stream's second and last event and closes.
C6_LinkDelivered ==
    [][\A c \in Channels, r \in Requests :
          (/\ chans[c].pc = "watching"
           /\ Created(chans[c].sessionId)
           /\ chans[c].startTime = CreatedAt
           /\ Succeeded(r)
           /\ reqs[r].sessionId = chans[c].sessionId
           /\ reqs[r].storedAt <= CreatedAt + graceMs
           /\ now <= reqs[r].storedAt + pollInterval
           /\ chans'[c].timers # chans[c].timers)
              => /\ chans'[c].pc = "closed"
                 /\ chans'[c].timers = {}
                 /\ chans'[c].events = <<ConnectedEvent(chans[c].sessionId),
                                         LinkEvent(reqs[r].sanitizedUrl)>>]_vars

C6_Witness ==
    \E c \in Channels, r \in Requests :
        /\ chans[c].pc = "closed"
        /\ Created(chans[c].sessionId)
        /\ chans[c].startTime = CreatedAt
        /\ Succeeded(r)
        /\ reqs[r].sessionId = chans[c].sessionId
        /\ reqs[r].storedAt > chans[c].startTime
        /\ reqs[r].storedAt <= CreatedAt + graceMs
        /\ now <= reqs[r].storedAt + pollInterval
        /\ chans[c].events = <<ConnectedEvent(chans[c].sessionId),
                               LinkEvent(reqs[r].sanitizedUrl)>>

\* What the claims say of a link, stated without the handler's functions
IsTrimmed(s) == s = <<>> \/ (s[1] \notin JsWhiteSpace /\ s[Len(s)] \notin JsWhiteSpace)
HasDenyPrefix(s) == \E p \in DenyList : startsWith(toLowerCase(s), p)
IsHttpUrl(s) ==
    ParseUrl(s).ok /\ ParseUrl(s).protocol \in { <<"h","t","t","p",":">>, <<"h","t","t","p","s",":">> }
Denylisted(body) ==
    body.kind = "object" /\ body.type = "string" /\ HasDenyPrefix(trim(body.link))

StoredLinksSafe ==
    \A id \in DOMAIN memoryStore :
        HasLink(memoryStore[id]) =>
            /\ IsTrimmed(memoryStore[id].link)
            /\ ~HasDenyPrefix(memoryStore[id].link)
            /\ IsHttpUrl(memoryStore[id].link)

NeverReachesStore(r) ==
    reqs[r].pc # "store" /\ "sanitizedUrl" \notin DOMAIN reqs[r]

\* C8 as claimed: every stored link is trimmed, free of the denylisted
\* prefixes and an absolute http(s) URL, and a submission with a denylisted
\* prefix always returns InvalidValue (400) and never reaches the store.
C8_DenylistAlwaysInvalid ==
    /\ StoredLinksSafe
    /\ \A r \in Requests :
          (reqs[r].pc # "idle" /\ Denylisted(reqs[r].body)) =>
              /\ NeverReachesStore(r)
              /\ Done(r) => reqs[r].response.status = 400

\* C8 as amended: every stored link is trimmed, free of the denylisted
\* prefixes and an absolute http(s) URL, and a submission with a denylisted
\* prefix never reaches the store and returns InvalidValue (400), unless the
\* rate limiter rejects it first (429).
C8_DenylistEnforced ==
    /\ StoredLinksSafe
    /\ \A r \in Requests :
          (reqs[r].pc # "idle" /\ Denylisted(reqs[r].body)) =>
              /\ NeverReachesStore(r)
              /\ Done(r) => reqs[r].response.status \in {400, 429}
              /\ (Done(r) /\ reqs[r].response.status = 400)
                    => reqs[r].response.error \in
                          {"Invalid URL protocol",
                           "Invalid URL format. Please provide a valid http or https URL."}

C8_Witness ==
    /\ "s1" \in DOMAIN memoryStore
    /\ HasLink(memoryStore["s1"])
    /\ Done("r1")
    /\ reqs["r1"].body.link = LinkJsMixed
    /\ reqs["r1"].response = Response(400, "Invalid URL protocol")

\* C9: POST /submit decides in a fixed order.  A request over the limit gets
\* 429 and leaves the session store alone, whatever its body or session; a
\* request under the limit goes on to its body; an invalid link then gets
\* 400 and leaves the store alone even when the session is missing; a valid
\* link for a missing session gets 404; only a valid link for a live session
\* reaches the store write, which alone can answer 200.
OverLimit(id) ==
    LET k == "submit-" \o id
    IN  /\ k \in DOMAIN rateLimitStore
        /\ now <= rateLimitStore[k].resetAt
        /\ rateLimitStore[k].count >= submitMaxRequests

GoodLinks == {LinkA, LinkB, LinkPadded}
InvalidLink(body) ==
    body.kind = "object" /\ (body.type # "string" \/ body.link \notin GoodLinks)
GoodLink(body) ==
    body.kind = "object" /\ body.type = "string" /\ body.link \in GoodLinks
Missing(id) == id \notin DOMAIN memoryStore \/ now > memoryStore[id].expiresAt

C9_PriorityOrder ==
    [][\A r \in Requests :
          /\ (reqs[r].pc = "idle" /\ reqs'[r].pc # "idle") =>
                /\ memoryStore' = memoryStore
                /\ IF OverLimit(reqs'[r].sessionId)
                   THEN reqs'[r].pc = "done" /\ reqs'[r].response.status = 429
                   ELSE reqs'[r].pc = "body"
          /\ (reqs[r].pc = "body" /\ reqs'[r].pc # "body" /\ InvalidLink(reqs[r].body)) =>
                /\ memoryStore' = memoryStore
                /\ reqs'[r].pc = "done"
                /\ reqs'[r].response.status = 400
          /\ (reqs[r].pc = "body" /\ reqs'[r].pc # "body" /\ GoodLink(reqs[r].body)) =>
                IF Missing(reqs[r].sessionId)
                THEN /\ reqs'[r].pc = "done"
                     /\ reqs'[r].response.status = 404
                     /\ reqs[r].sessionId \notin DOMAIN memoryStore'
                ELSE /\ reqs'[r].pc = "store"
                     /\ memoryStore' = memoryStore
          /\ (reqs'[r].pc = "done" /\ reqs[r].pc # "done"
                                  /\ reqs'[r].response.status = 200) =>
                /\ reqs[r].pc = "store"
                /\ reqs[r].sessionId \in DOMAIN memoryStore'
                /\ memoryStore'[reqs[r].sessionId].link = reqs[r].sanitizedUrl]_vars

C9_Witness ==
    /\ Done("r1")
    /\ reqs["r1"].response.status = 429
    /\ GoodLink(reqs["r1"].body)
    /\ "s1" \in DOMAIN memoryStore
    /\ ~HasLink(memoryStore["s1"])

\* C11: a request under the limit whose link is a well-formed absolute http
\* or https URL goes on to the store write when its session is fresh and
\* live, and the store write on a fresh live session answers 200 and leaves
\* the session holding exactly the trimmed input; a link that parses as a
\* URL of any other scheme is answered 400 and the store is left unchanged.
HttpLink(body) ==
    body.kind = "object" /\ body.type = "string" /\ IsHttpUrl(trim(body.link))
OtherSchemeLink(body) ==
    /\ body.kind = "object"
    /\ body.type = "string"
    /\ ParseUrl(trim(body.link)).ok
    /\ ~IsHttpUrl(trim(body.link))
FreshLive(id) ==
    /\ id \in DOMAIN memoryStore
    /\ now <= memoryStore[id].expiresAt
    /\ ~HasLink(memoryStore[id])

C11_SchemeRestriction ==
    [][\A r \in Requests :
          /\ (reqs[r].pc = "body" /\ reqs'[r].pc # "body" /\ HttpLink(reqs[r].body)
                                  /\ FreshLive(reqs[r].sessionId)) =>
                /\ reqs'[r].pc = "store"
                /\ memoryStore' = memoryStore
          /\ (reqs[r].pc = "store" /\ reqs'[r].pc # "store"
                                   /\ FreshLive(reqs[r].sessionId)) =>
                /\ HttpLink(reqs[r].body)
                /\ reqs'[r].pc = "done"
                /\ reqs'[r].response.status = 200
                /\ memoryStore' = [memoryStore EXCEPT ![reqs[r].sessionId] =
                       [link |-> trim(reqs[r].body.link),
                        expiresAt |-> @.expiresAt, createdAt |-> @.createdAt]]
          /\ (reqs[r].pc = "body" /\ reqs'[r].pc # "body"
                                  /\ OtherSchemeLink(reqs[r].body)) =>
                /\ reqs'[r].pc = "done"
                /\ reqs'[r].response.status = 400
                /\ memoryStore' = memoryStore]_vars

C11_Witness ==
    /\ "s1" \in DOMAIN memoryStore
    /\ HasLink(memoryStore["s1"])
    /\ memoryStore["s1"].link = LinkA
    /\ Done("r1")
    /\ reqs["r1"].body.link = LinkFtp
    /\ reqs["r1"].response.status = 400

\* C12: a link longer than 2048 characters is never stored: a request the
\* limiter admitted with such a link never reaches the store write and is
\* answered 400, and no session holds a link longer than 2048 characters.
TooLong(body) ==
    body.kind = "object" /\ body.type = "string" /\ Len(trim(body.link)) > maxUrlLength

C12_LongLinkRejected ==
    /\ \A id \in DOMAIN memoryStore :
          HasLink(memoryStore[id]) => Len(memoryStore[id].link) <= maxUrlLength
    /\ \A r \in Requests :
          (reqs[r].pc \notin {"idle"} /\ TooLong(reqs[r].body)) =>
              /\ reqs[r].pc # "store"
              /\ (Done(r) /\ reqs[r].response.status # 429)
                    => reqs[r].response.status = 400

\* The limit each route passes to checkRateLimit for a key
SubmitKey(id) == "submit-" \o id
MaxFor(k) ==
    IF k \in {SubmitKey(id) : id \in SessionIds}
    THEN submitMaxRequests
    ELSE sessionMaxRequests

\* C13: for every limiter key and every fixed window, counted from the
\* admitted call that opened it until window ms later, at most maxRequests
\* calls are admitted, whatever calls on other keys, clock advances and
\* sweeps come in between.
C13_WindowLimit ==
    \A k \in DOMAIN admitted : admitted[k].n <= MaxFor(k)

C13_Witness ==
    /\ SubmitKey("s1") \in DOMAIN admitted
    /\ admitted[SubmitKey("s1")].n = submitMaxRequests
    /\ "before" \in DOMAIN admitted[SubmitKey("s1")]
    /\ Done("r1")
    /\ reqs["r1"].sessionId = "s1"
    /\ reqs["r1"].response.status = 429
    /\ SubmitKey("s2") \in DOMAIN admitted
    /\ SubmitKey("s2") \notin DOMAIN rateLimitStore

\* C14: every call of checkRateLimit follows the three-case reference: with
\* no entry, or now > resetAt, the entry becomes count = 1, resetAt = now +
\* windowMs and the call is admitted; otherwise with count >= maxRequests the
\* call is rejected and the map is unchanged; otherwise count grows by one,
\* resetAt stays and the call is admitted.  No other key is touched.  The
\* call that follows maxRequests admitted calls inside their window is
\* rejected.
C14_ThreeCases ==
    [][\A r \in Requests :
          (reqs[r].pc = "idle" /\ reqs'[r].pc # "idle") =>
              LET k == SubmitKey(reqs'[r].sessionId)
                  fresh == k \notin DOMAIN rateLimitStore \/ now > rateLimitStore[k].resetAt
                  admit == reqs'[r].pc = "body"
                  reject == reqs'[r].pc = "done" /\ reqs'[r].response.status = 429
              IN  /\ DOMAIN rateLimitStore' = DOMAIN rateLimitStore \cup {k}
                  /\ \A x \in DOMAIN rateLimitStore \ {k} :
                        rateLimitStore'[x] = rateLimitStore[x]
                  /\ IF fresh
                     THEN /\ admit
                          /\ rateLimitStore'[k] = [count |-> 1, resetAt |-> now + windowMs]
                     ELSE IF rateLimitStore[k].count >= submitMaxRequests
                     THEN /\ reject
                          /\ rateLimitStore'[k] = rateLimitStore[k]
                     ELSE /\ admit
                          /\ rateLimitStore'[k] =
                                [count |-> rateLimitStore[k].count + 1,
                                 resetAt |-> rateLimitStore[k].resetAt]
                  /\ (/\ k \in DOMAIN admitted
                      /\ admitted[k].n = submitMaxRequests
                      /\ now <= admitted[k].start + windowMs) => reject]_vars

C14_Witness ==
    /\ reqs["r1"].pc = "body"
    /\ reqs["r1"].sessionId = "s1"
    /\ SubmitKey("s1") \in DOMAIN rateLimitStore
    /\ rateLimitStore[SubmitKey("s1")] = [count |-> 1, resetAt |-> now + windowMs]
    /\ "before" \in DOMAIN admitted[SubmitKey("s1")]
    /\ admitted[SubmitKey("s1")].before = windowMs

\* C15: within any 60-second interval at most 5 submit requests for one
\* session id and at most 10 session creations from one IP pass the limiter.
\* Checked at every admitted call that comes less than 60 seconds after the
\* latest admitted call of the previous window: that call and the calls
\* admitted since lie within one 60-second interval.
C15_PerMinute ==
    [][\A k \in DOMAIN admitted' :
          (/\ k \in DOMAIN admitted
           /\ admitted'[k] # admitted[k]
           /\ "before" \in DOMAIN admitted'[k]
           /\ now - admitted'[k].before < windowMs)
              => admitted'[k].n + 1 <= MaxFor(k)]_vars

\* C16: when the creation limiter is over its limit for the requester's
\* address, POST /session answers 429 and creates nothing: the session
\* store, the eviction timers and the ids given out are unchanged; and it
\* answers 429 in no other case.
SessionKey(ip) == "session-" \o ip
CreateOverLimit(ip) ==
    /\ SessionKey(ip) \in DOMAIN rateLimitStore
    /\ now <= rateLimitStore[SessionKey(ip)].resetAt
    /\ rateLimitStore[SessionKey(ip)].count >= sessionMaxRequests

C16_RateLimitedCreatesNothing ==
    [][\A k \in Creators :
          (creates[k].pc = "idle" /\ creates'[k].pc = "done") =>
              IF CreateOverLimit("10.0.0.1")
              THEN /\ creates'[k].status = 429
                   /\ memoryStore' = memoryStore
                   /\ evictTimers' = evictTimers
                   /\ issued' = issued
              ELSE /\ creates'[k].status = 200
                   /\ creates'[k].sessionId \in DOMAIN memoryStore'
                   /\ Cardinality(evictTimers') = Cardinality(evictTimers) + 1]_vars

C16_Witness ==
    /\ creates["p1"].pc = "done"
    /\ creates["p1"].status = 429
    /\ Cardinality(DOMAIN memoryStore) = sessionMaxRequests
    /\ Cardinality(evictTimers) = sessionMaxRequests

\* C17: a successful POST /session adds exactly one session, under an id
\* the store did not hold, with no link and with the expiresAt it returns,
\* now + 300000 ms; and from then on, at every time before that expiresAt
\* and as long as no submission to the id has succeeded, getSession returns
\* that session, without a link.
C17_CreateStep ==
    \A k \in Creators :
        (creates[k].pc = "idle" /\ creates'[k].pc = "done" /\ creates'[k].status = 200) =>
            LET id == creates'[k].sessionId
            IN  /\ id \notin DOMAIN memoryStore
                /\ DOMAIN memoryStore' = DOMAIN memoryStore \cup {id}
                /\ \A x \in DOMAIN memoryStore : memoryStore'[x] = memoryStore[x]
                /\ ~HasLink(memoryStore'[id])
                /\ "link" \notin DOMAIN memoryStore'[id]
                /\ creates'[k].expiresAt = now + sessionTtl
                /\ memoryStore'[id].expiresAt = creates'[k].expiresAt

C17_Readable ==
    \A k \in Creators :
        (/\ creates[k].pc = "done"
         /\ creates[k].status = 200
         /\ now < creates[k].expiresAt
         /\ \A r \in Requests : ~(Succeeded(r) /\ reqs[r].sessionId = creates[k].sessionId))
            => LET id == creates[k].sessionId
                   got == getSession(memoryStore, id, now)
               IN  /\ got.found
                   /\ got.store = memoryStore
                   /\ ~HasLink(memoryStore[id])
                   /\ memoryStore[id].expiresAt = creates[k].expiresAt

C17_CreateThenReadable == [][C17_CreateStep]_vars /\ []C17_Readable

C17_Witness ==
    /\ Created("s1")
    /\ now > CreatedAt
    /\ now < creates["p1"].expiresAt
    /\ "s1" \in DOMAIN memoryStore
    /\ ~HasLink(memoryStore["s1"])
    /\ \E c \in Channels : chans[c].pc = "watching" /\ chans[c].sessionId = "s1"
    /\ Done("r1") /\ ~Succeeded("r1")

\* C18: once a stream has sent the link event for a session, the session is
\* gone from the store: getSession returns absent for it, even before
\* expiresAt.
C18_DeletedAfterDelivery ==
    \A c \in Channels :
        (chans[c].pc = "closed" /\ chans[c].events[Len(chans[c].events)].type = "link")
            => ~getSession(memoryStore, chans[c].sessionId, now).found

\* C19: once the observer has disconnected, the stream does nothing more: no
\* step runs a poll, schedules one, looks the session up or sends an event.
C19_CancelStopsPolling ==
    [][\A c \in Channels :
          chans[c].pc = "cancelled" => chans'[c] = chans[c]]_vars

\* C20: a poll of a watched stream that finds the session absent sends
\* nothing and schedules the next poll while at most 3 s have passed since
\* the stream was opened, and sends the error event and closes the stream
\* after that; a poll that finds the session, created in the meantime or
\* not, sends the link if there is one and otherwise schedules the next poll.
PollOutcome(c, before, elapsed) ==
    LET id == chans'[c].sessionId
        after == chans'[c]
    IN  IF Missing(id)
        THEN IF elapsed <= graceMs
             THEN /\ after.events = before
                  /\ after.pc = "watching"
                  /\ after.timers = {now + pollInterval}
             ELSE /\ after.events = Append(before, NotFoundEvent)
                  /\ after.pc = "closed"
                  /\ after.timers = {}
        ELSE IF HasLink(memoryStore[id])
        THEN /\ after.events = Append(before, LinkEvent(memoryStore[id].link))
             /\ after.pc = "closed"
             /\ after.timers = {}
        ELSE /\ after.events = before
             /\ after.pc = "watching"
             /\ after.timers = {now + pollInterval}

C20_GracePeriod ==
    [][\A c \in Channels :
          /\ (chans[c].pc = "idle" /\ chans'[c].pc # "idle") =>
                PollOutcome(c, <<ConnectedEvent(chans'[c].sessionId)>>, 0)
          /\ (/\ chans[c].pc = "watching"
              /\ chans'[c].timers # chans[c].timers
              /\ now - chans[c].startTime <= maxDuration) =>
                PollOutcome(c, chans[c].events, now - chans[c].startTime)]_vars

C20_Witness ==
    \E c \in Channels :
        /\ chans[c].pc = "closed"
        /\ Created(chans[c].sessionId)
        /\ chans[c].startTime < CreatedAt
        /\ CreatedAt <= chans[c].startTime + graceMs
        /\ chans[c].events = <<ConnectedEvent(chans[c].sessionId), LinkEvent(LinkA)>>

\* C21: the eviction timer is not observable: when it fires, getSession and
\* storeLink answer for every id as they would have answered at that moment
\* had it not fired, so the submit handler and the polls see the same.
TimerFired == evictTimers' # evictTimers /\ evictTimers' \subseteq evictTimers

C21_TimerUnobservable ==
    [][TimerFired =>
          \A id \in SessionIds :
              /\ getSession(memoryStore', id, now).found = getSession(memoryStore, id, now).found
              /\ storeLink(memoryStore', id, LinkA, now).ok = storeLink(memoryStore, id, LinkA, now).ok]_vars

\* C22: no exception escapes a poll or a route handler: on no stream, the
\* cancelled and the closed ones included, has a poll ended in a throw that
\* nothing caught.
C22_NoUnhandledFault ==
    \A c \in DOMAIN chans : chans[c].pc # "idle" => chans[c].faults = 0

\* C23: a session's link is delivered once: no two streams have both sent
\* the link event of the same session.
SentLink(c) ==
    /\ chans[c].pc # "idle"
    /\ \E i \in DOMAIN chans[c].events : chans[c].events[i].type = "link"

C23_DeliveredOnce ==
    \A c, d \in DOMAIN chans :
        (c # d /\ SentLink(c) /\ SentLink(d)) => chans[c].sessionId # chans[d].sessionId

\* C24: the two limiter scopes are independent: a session creation changes
\* no entry other than that of some address in the creation scope and leaves
\* the entry of every session id in the submission scope as it was, present
\* or not; a submission changes only the entry of its session id and leaves
\* the entry of every address as it was.
SameEntry(key) ==
    /\ key \in DOMAIN rateLimitStore' <=> key \in DOMAIN rateLimitStore
    /\ key \in DOMAIN rateLimitStore => rateLimitStore'[key] = rateLimitStore[key]

C24_ScopesIndependent ==
    [][/\ \A k \in Creators :
             (creates[k].pc = "idle" /\ creates'[k].pc = "done") =>
                 /\ \A id \in ScopeIds : SameEntry(SubmitKey(id))
                 /\ \A key \in DOMAIN rateLimitStore' :
                       SameEntry(key) \/ key \in {SessionKey(ip) : ip \in ScopeIps}
       /\ \A r \in Requests :
             (reqs[r].pc = "idle" /\ reqs'[r].pc # "idle") =>
                 /\ \A ip \in ScopeIps : SameEntry(SessionKey(ip))
                 /\ \A key \in DOMAIN rateLimitStore' :
                       SameEntry(key) \/ key = SubmitKey(reqs'[r].sessionId)]_vars

C24_Witness ==
    /\ creates["p1"].pc = "done"
    /\ creates["p1"].status = 429
    /\ SessionKey("s1") \in DOMAIN rateLimitStore
    /\ rateLimitStore[SessionKey("s1")].count = sessionMaxRequests
    /\ SubmitKey("s1") \in DOMAIN rateLimitStore
    /\ rateLimitStore[SubmitKey("s1")].count = submitMaxRequests
    /\ SessionKey("submit-s1") \in DOMAIN rateLimitStore
    /\ SubmitKey("session-s1") \in DOMAIN rateLimitStore

\* C25: a request that found its session live at the lookup and whose store
\* write finds it expired or evicted is answered 404, not 500, and stores
\* nothing.
C25_LateExpiryNotFound ==
    [][\A r \in Requests :
          (/\ reqs[r].pc = "store"
           /\ reqs'[r].pc = "done"
           /\ Missing(reqs[r].sessionId)) =>
              /\ reqs'[r].response.status = 404
              /\ reqs[r].sessionId \notin DOMAIN memoryStore']_vars

\* C26: every poll of a watched stream decides in this order: more than 5
\* minutes since the stream was opened: timeout, and the store is neither
\* read nor changed, whatever the session holds; else session absent: error
\* after the grace period, silent re-poll within it; else the session has a
\* link: link; else re-poll.
Ends(c, before, ev) ==
    /\ chans'[c].events = Append(before, ev)
    /\ chans'[c].pc = "closed"
    /\ chans'[c].timers = {}
Repolls(c, before) ==
    /\ chans'[c].events = before
    /\ chans'[c].pc = "watching"
    /\ chans'[c].timers = {now + pollInterval}

PollDecision(c, before, elapsed) ==
    LET id == chans'[c].sessionId
    IN  IF elapsed > maxDuration
        THEN Ends(c, before, TimeoutEvent) /\ memoryStore' = memoryStore
        ELSE IF Missing(id)
        THEN /\ IF elapsed > graceMs
                THEN Ends(c, before, NotFoundEvent)
                ELSE Repolls(c, before)
             /\ id \notin DOMAIN memoryStore'
        ELSE /\ IF HasLink(memoryStore[id])
                THEN Ends(c, before, LinkEvent(memoryStore[id].link))
                ELSE Repolls(c, before)
             /\ memoryStore' = memoryStore

C26_PollOrder ==
    [][\A c \in Channels :
          /\ (chans[c].pc = "idle" /\ chans'[c].pc # "idle") =>
                PollDecision(c, <<ConnectedEvent(chans'[c].sessionId)>>, 0)
          /\ (chans[c].pc = "watching" /\ chans'[c].timers # chans[c].timers) =>
                PollDecision(c, chans[c].events, now - chans[c].startTime)]_vars

C26_Witness ==
    \E c \in Channels :
        /\ chans[c].pc = "closed"
        /\ chans[c].events = <<ConnectedEvent("s1"), TimeoutEvent>>
        /\ "s1" \in DOMAIN memoryStore
        /\ now <= memoryStore["s1"].expiresAt
        /\ HasLink(memoryStore["s1"])

\* C27: getSession on a stored session whose expiresAt has passed removes
\* the entry, and nothing else, and returns absent; on a live session it
\* returns the session and leaves the store as it is; on an id never stored
\* it returns absent like on an expired one; after an absent result the store
\* has no entry for the id.  So it is in every state for every id, and so
\* the submit handler finds it at its lookup.
C27_GetFrame ==
    \A id \in SessionIds :
        LET got == getSession(memoryStore, id, now)
        IN  /\ (id \in DOMAIN memoryStore /\ now > memoryStore[id].expiresAt) =>
                  /\ ~got.found
                  /\ DOMAIN got.store = DOMAIN memoryStore \ {id}
                  /\ \A x \in DOMAIN got.store : got.store[x] = memoryStore[x]
            /\ (id \in DOMAIN memoryStore /\ now <= memoryStore[id].expiresAt) =>
                  /\ got.found
                  /\ got.store = memoryStore
            /\ id \notin DOMAIN memoryStore =>
                  /\ ~got.found
                  /\ got.store = memoryStore
            /\ ~got.found => id \notin DOMAIN got.store

C27_LookupStep ==
    \A r \in Requests :
        (reqs[r].pc = "body" /\ reqs'[r].pc = "done" /\ reqs'[r].response.status = 404) =>
            /\ reqs[r].sessionId \notin DOMAIN memoryStore'
            /\ \A x \in DOMAIN memoryStore \ {reqs[r].sessionId} :
                  x \in DOMAIN memoryStore' /\ memoryStore'[x] = memoryStore[x]

CleanupRan ==
    /\ memoryStore' # memoryStore
    /\ UNCHANGED <<evictTimers, reqs, creates, chans>>

Returned(store, id, t) ==
    IF getSession(store, id, t).found THEN <<store[id]>> ELSE <<>>
Written(store, id, t) ==
    IF storeLink(store, id, LinkB, t).ok
    THEN <<storeLink(store, id, LinkB, t).store[id]>>
    ELSE <<>>

C28_SweepSessions ==
    [][CleanupRan =>
          /\ DOMAIN memoryStore' =
                {id \in DOMAIN memoryStore : now <= memoryStore[id].expiresAt}
          /\ \A id \in DOMAIN memoryStore' : memoryStore'[id] = memoryStore[id]
          /\ \A id \in SessionIds :
                /\ Returned(memoryStore', id, now) = Returned(memoryStore, id, now)
                /\ Written(memoryStore', id, now) = Written(memoryStore, id, now)]_vars

C28_Witness ==
    /\ now = sessionTtl + 1
    /\ "s1" \notin DOMAIN memoryStore
    /\ \E tm \in evictTimers : tm.id = "s1"
    /\ "s2" \in DOMAIN memoryStore
    /\ memoryStore["s2"].expiresAt = now
    /\ HasLink(memoryStore["s2"])
    /\ Succeeded("r1")
    /\ reqs["r1"].sessionId = "s2"
    /\ chans["c1"].pc = "idle"

\* C29: a run of cleanupRateLimits removes exactly the entries with now >
\* resetAt and leaves the others as they were, and no call of checkRateLimit,
\* on any key, then or later, is answered differently for it or leaves a
\* different entry for its key.
SweepRan ==
    /\ rateLimitStore' # rateLimitStore
    /\ UNCHANGED <<reqs, creates>>

Answer(rl, key, t) ==
    LET res == checkRateLimit(rl, key, MaxFor(key), windowMs, t)
    IN  <<res.allowed, res.store[key]>>

C29_SweepLimits ==
    [][SweepRan =>
          /\ DOMAIN rateLimitStore' =
                {k \in DOMAIN rateLimitStore : now <= rateLimitStore[k].resetAt}
          /\ \A k \in DOMAIN rateLimitStore' : rateLimitStore'[k] = rateLimitStore[k]
          /\ \A id \in SessionIds, t \in InstantsSubmit :
                t >= now =>
                    Answer(rateLimitStore', SubmitKey(id), t) =
                        Answer(rateLimitStore, SubmitKey(id), t)]_vars

C29_Witness ==
    /\ SubmitKey("s1") \in DOMAIN admitted
    /\ admitted[SubmitKey("s1")].n = submitMaxRequests
    /\ SubmitKey("s1") \notin DOMAIN rateLimitStore
    /\ SubmitKey("s2") \in DOMAIN rateLimitStore
    /\ now <= rateLimitStore[SubmitKey("s2")].resetAt
    /\ rateLimitStore[SubmitKey("s2")].count = submitMaxRequests

\* C30: a window is fixed once opened: while now <= resetAt no step removes
\* the entry or moves its resetAt, and its count stays or grows by one; a
\* rejected call changes nothing in the limiter map.
C30_WindowFixed ==
    [][/\ \A key \in DOMAIN rateLimitStore :
             now <= rateLimitStore[key].resetAt =>
                 /\ key \in DOMAIN rateLimitStore'
                 /\ rateLimitStore'[key].resetAt = rateLimitStore[key].resetAt
                 /\ rateLimitStore'[key].count \in
                       {rateLimitStore[key].count, rateLimitStore[key].count + 1}
       /\ \A k \in Creators :
             (creates[k].pc = "idle" /\ creates'[k].pc = "done" /\ creates'[k].status = 429)
                 => rateLimitStore' = rateLimitStore]_vars

C30_Witness ==
    /\ creates["p1"].pc = "done"
    /\ creates["p1"].status = 429
    /\ SessionKey("10.0.0.1") \in DOMAIN rateLimitStore
    /\ now = rateLimitStore[SessionKey("10.0.0.1")].resetAt
    /\ rateLimitStore[SessionKey("10.0.0.1")].count = sessionMaxRequests
    /\ admitted[SessionKey("10.0.0.1")].last > admitted[SessionKey("10.0.0.1")].start

\* C31: sessions are isolated: a creation, a step of a submission and a
\* step of a stream leave the entry of every session other than their own
\* as it was, and so do getSession, storeLink and deleteSession called on
\* another id; the link a stream sends is the one its own session holds.
SameSession(x) ==
    /\ x \in DOMAIN memoryStore' <=> x \in DOMAIN memoryStore
    /\ x \in DOMAIN memoryStore => memoryStore'[x] = memoryStore[x]

OthersKept(store, after, id) ==
    \A x \in SessionIds \ {id} :
        /\ x \in DOMAIN after <=> x \in DOMAIN store
        /\ x \in DOMAIN store => after[x] = store[x]

C31_OpsIsolated ==
    \A id \in SessionIds :
        /\ OthersKept(memoryStore, getSession(memoryStore, id, now).store, id)
        /\ OthersKept(memoryStore, storeLink(memoryStore, id, LinkB, now).store, id)
        /\ OthersKept(memoryStore, deleteSession(memoryStore, id), id)
        /\ OthersKept(memoryStore, createSession(memoryStore, id, getSessionExpiration(now), now), id)

C31_StepsIsolated ==
    /\ \A k \in Creators :
          (creates[k].pc = "idle" /\ creates'[k].pc = "done" /\ creates'[k].status = 200) =>
              \A x \in SessionIds \ {creates'[k].sessionId} : SameSession(x)
    /\ \A r \in Requests :
          (reqs'[r] # reqs[r] /\ reqs'[r].pc # "idle") =>
              \A x \in SessionIds \ {reqs'[r].sessionId} : SameSession(x)
    /\ \A c \in Channels :
          (chans'[c] # chans[c]) =>
              /\ \A x \in SessionIds \ {chans'[c].sessionId} : SameSession(x)
              /\ (chans'[c].pc = "closed" /\ chans'[c].events[Len(chans'[c].events)].type = "link") =>
                    /\ chans'[c].sessionId \in DOMAIN memoryStore
                    /\ HasLink(memoryStore[chans'[c].sessionId])
                    /\ chans'[c].events[Len(chans'[c].events)].link =
                          memoryStore[chans'[c].sessionId].link

C31_SessionsIsolated == []C31_OpsIsolated /\ [][C31_StepsIsolated]_vars

C31_Witness ==
    /\ chans["c1"].pc = "watching"
    /\ chans["c1"].sessionId = "s1"
    /\ Len(chans["c1"].events) = 1
    /\ now > chans["c1"].startTime
    /\ chans["c1"].timers = {now + pollInterval}
    /\ "s1" \in DOMAIN memoryStore
    /\ ~HasLink(memoryStore["s1"])
    /\ "s2" \in DOMAIN memoryStore
    /\ HasLink(memoryStore["s2"])
    /\ Succeeded("r1")

\* C32: on every stream, watched, closed or cancelled, the first event is
\* the connected acknowledgment of the stream's session and no later event
\* is one; the step that opens the stream sends it ahead of whatever the
\* first poll sends, and a session the first poll finds expired is removed
\* in that same step, not before.
IsConnected(ev) == ev.type = "connected"

C32_Acknowledged ==
    \A c \in DOMAIN chans :
        chans[c].pc # "idle" =>
            /\ Len(chans[c].events) >= 1
            /\ chans[c].events[1] = ConnectedEvent(chans[c].sessionId)
            /\ \A i \in DOMAIN chans[c].events : IsConnected(chans[c].events[i]) => i = 1

C32_OpenStep ==
    \A c \in DOMAIN chans :
        (chans[c].pc = "idle" /\ chans'[c].pc # "idle") =>
            /\ IsConnected(chans'[c].events[1])
            /\ Len(chans'[c].events) = 2 =>
                  chans'[c].events[2].type \in {"link", "error"}
            /\ memoryStore' # memoryStore =>
                  /\ chans'[c].sessionId \in DOMAIN memoryStore
                  /\ now > memoryStore[chans'[c].sessionId].expiresAt

C32_ConnectedFirst == []C32_Acknowledged /\ [][C32_OpenStep]_vars

C32_Witness ==
    /\ chans["c1"].pc = "closed"
    /\ chans["c1"].startTime = now
    /\ chans["c1"].events = <<ConnectedEvent("s1"), LinkEvent(LinkA)>>

\* C33: whenever a submission to a session has been answered 200 while a
\* stream of that session is being watched, the stream eventually sends a
\* link event, also when the link was stored within the last poll interval
\* before the session's expiresAt.
Accepted(c) ==
    /\ chans[c].pc = "watching"
    /\ \E r \in Requests : Succeeded(r) /\ reqs[r].sessionId = chans[c].sessionId

C33_AcceptedIsDelivered == \A c \in Channels : Accepted(c) ~> SentLink(c)

\* C34: a link event on a stream of session id carries the value the
\* session held at that poll, and that value was stored by a submission to
\* the same id that was answered 200: never the link of another session,
\* never the link of a rejected submission, never the link as it was sent
\* before sanitizing.
StoredBy(r, id, link) ==
    /\ Succeeded(r)
    /\ reqs[r].sessionId = id
    /\ reqs[r].sanitizedUrl = link

C34_LinkHasOrigin ==
    \A c \in DOMAIN chans :
        chans[c].pc # "idle" =>
            \A i \in DOMAIN chans[c].events :
                chans[c].events[i].type = "link" =>
                    \E r \in Requests :
                        StoredBy(r, chans[c].sessionId, chans[c].events[i].link)

C34_LinkAsHeld ==
    \A c \in DOMAIN chans :
        (chans[c].pc # "idle" /\ Len(chans'[c].events) > Len(chans[c].events)) =>
            LET ev == chans'[c].events[Len(chans'[c].events)]
                id == chans[c].sessionId
            IN  ev.type = "link" =>
                    /\ id \in DOMAIN memoryStore
                    /\ HasLink(memoryStore[id])
                    /\ ev.link = memoryStore[id].link

C34_LinkFromSameSession == []C34_LinkHasOrigin /\ [][C34_LinkAsHeld]_vars

C34_Witness ==
    /\ chans["c1"].pc = "closed"
    /\ chans["c1"].sessionId = "s2"
    /\ chans["c1"].events = <<ConnectedEvent("s2"), LinkEvent(LinkA)>>
    /\ chans["c1"].startTime < now
    /\ StoredBy("r1", "s2", LinkA) /\ reqs["r1"].body.link = LinkPadded
    /\ StoredBy("r2", "s1", LinkB)

\* C35: a request the limiter admitted stays counted: the step that admits
\* it adds one to its session's window, and no later step of the request,
\* whether it ends in 400, 404, 500 or 200, touches the limiter.  So once
\* submitMaxRequests requests of a window have been admitted, none of which
\* stored a link, a further request in that window with a valid link for the
\* live session is answered 429 and the session map is left as it was.
Counted(store, id) ==
    IF SubmitKey(id) \in DOMAIN store THEN store[SubmitKey(id)].count ELSE 0

C35_Step ==
    \A r \in Requests :
        /\ (reqs[r].pc = "idle" /\ reqs'[r].pc = "body") =>
              LET id == reqs'[r].sessionId
              IN  /\ Counted(rateLimitStore', id) >= 1
                  /\ \/ Counted(rateLimitStore', id) = Counted(rateLimitStore, id) + 1
                     \/ /\ Counted(rateLimitStore', id) = 1
                        /\ rateLimitStore'[SubmitKey(id)].resetAt = now + windowMs
        /\ (reqs[r].pc \in {"body", "store"} /\ reqs'[r].pc # reqs[r].pc) =>
              rateLimitStore' = rateLimitStore
        /\ (reqs[r].pc = "idle" /\ reqs'[r].pc # "idle" /\ OverLimit(reqs'[r].sessionId)) =>
              /\ reqs'[r].pc = "done"
              /\ reqs'[r].response.status = 429
              /\ memoryStore' = memoryStore
              /\ rateLimitStore' = rateLimitStore

C35_FailuresCount == [][C35_Step]_vars

C35_Witness ==
    /\ Done("r1")
    /\ reqs["r1"].response.status = 429
    /\ reqs["r1"].body.kind = "object"
    /\ reqs["r1"].body.type = "string"
    /\ reqs["r1"].body.link = LinkPadded
    /\ Created("s1")
    /\ now < memoryStore["s1"].expiresAt
    /\ ~HasLink(memoryStore["s1"])
    /\ admitted[SubmitKey("s1")].n = submitMaxRequests
    /\ now <= rateLimitStore[SubmitKey("s1")].resetAt

\* C36: as long as a session stays in the map its expiresAt and createdAt
\* are the ones createSession gave it: no step changes them, and neither
\* getSession nor storeLink, called at the present time on any id, returns
\* a map in which a session has another expiresAt or createdAt.
SameLifetime(store, after) ==
    \A id \in DOMAIN store \cap DOMAIN after :
        /\ after[id].expiresAt = store[id].expiresAt
        /\ after[id].createdAt = store[id].createdAt

C36_OpsKeepLifetime ==
    \A id \in SessionIds :
        /\ SameLifetime(memoryStore, getSession(memoryStore, id, now).store)
        /\ SameLifetime(memoryStore, storeLink(memoryStore, id, LinkB, now).store)
        /\ id \in DOMAIN memoryStore =>
              memoryStore[id].expiresAt = memoryStore[id].createdAt + sessionTtl

C36_LifetimeFixed ==
    []C36_OpsKeepLifetime /\ [][SameLifetime(memoryStore, memoryStore')]_vars

C36_Witness ==
    /\ Succeeded("r1")
    /\ reqs["r1"].sessionId = "s1"
    /\ reqs["r1"].storedAt = sessionTtl
    /\ "s1" \in DOMAIN memoryStore
    /\ memoryStore["s1"] = [link |-> LinkA, expiresAt |-> sessionTtl, createdAt |-> 0]
    /\ chans["c1"].pc = "closed"
    /\ chans["c1"].events = <<ConnectedEvent("s1"), LinkEvent(LinkA)>>

\* C37: an id enters the session map only in the step in which POST
\* /api/session creates it; getSession, storeLink, deleteSession and the
\* sweep return a map with no id the map did not have; and an id for which
\* getSession answers absent is answered absent after every step other
\* than its creation.
CreatedNow(id) ==
    \E k \in Creators :
        /\ creates[k].pc = "idle"
        /\ creates'[k].pc = "done"
        /\ creates'[k].status = 200
        /\ creates'[k].sessionId = id

C37_OpsAddNothing ==
    /\ DOMAIN cleanupExpiredSessions(memoryStore, now) \subseteq DOMAIN memoryStore
    /\ \A id \in SessionIds :
          /\ DOMAIN getSession(memoryStore, id, now).store \subseteq DOMAIN memoryStore
          /\ DOMAIN storeLink(memoryStore, id, LinkB, now).store \subseteq DOMAIN memoryStore
          /\ DOMAIN deleteSession(memoryStore, id) \subseteq DOMAIN memoryStore
          /\ id \notin DOMAIN memoryStore => ~storeLink(memoryStore, id, LinkB, now).ok

C37_AbsentStays ==
    \A id \in SessionIds :
        /\ (id \notin DOMAIN memoryStore /\ id \in DOMAIN memoryStore') => CreatedNow(id)
        /\ (~getSession(memoryStore, id, now).found /\ ~CreatedNow(id)) =>
              ~getSession(memoryStore', id, now').found

C37_OnlyCreateAdds == []C37_OpsAddNothing /\ [][C37_AbsentStays]_vars

C37_Witness ==
    /\ "s1" \in issued
    /\ "s1" \notin DOMAIN memoryStore
    /\ Done("r1")
    /\ reqs["r1"].sessionId = "s1"
    /\ reqs["r1"].seen = "fresh"
    /\ reqs["r1"].response.status = 500
    /\ chans["c1"].pc = "closed"
    /\ chans["c1"].sessionId = "s1"
    /\ chans["c1"].events[2] = NotFoundEvent

\* C38: the page has at most one EventSource open, and an EventSource whose
\* message or failure changes the page belongs to the session the page
\* shows, with no call of createNewSession waiting for its response.
C38_AtMostOneOpen == Cardinality(page.open) <= 1

C38_StaleSilent ==
    \A es \in page.open :
        (es \notin page'.open /\ page'.fetching = page.fetching) =>
            /\ es = page.session
            /\ page.fetching = 0

C38_OneEventSource == []C38_AtMostOneOpen /\ [][C38_StaleSilent]_vars

\* C39: a step in which an eviction timer runs removes no session that is
\* still live, that is, none with now < expiresAt, whatever creations,
\* deletions and creations again of the same id came before.
C39_TimerSparesLive ==
    [][TimerFired =>
          \A id \in DOMAIN memoryStore :
              id \notin DOMAIN memoryStore' => ~(now < memoryStore[id].expiresAt)]_vars

\* C40: a stream, watched, closed or abandoned by its observer, has at most
\* one poll timer pending and none once it has sent its link, timeout or
\* error event; every run of poll, the first one at the opening included,
\* leaves either no timer (the stream is closed, or the send failed on an
\* abandoned stream) or exactly the one timer it set, pollInterval from now.
C40_OneTimer ==
    \A c \in DOMAIN chans :
        chans[c].pc # "idle" =>
            /\ Cardinality(chans[c].timers) <= 1
            /\ Len(chans[c].events) >= 2 => chans[c].timers = {}

PollRan(c) ==
    /\ chans'[c] # chans[c]
    /\ ~(chans[c].pc = "watching" /\ chans'[c].pc = "cancelled")

C40_PollStep ==
    \A c \in DOMAIN chans :
        PollRan(c) =>
            \/ /\ chans'[c].timers = {}
               /\ \/ chans'[c].pc = "closed" /\ Len(chans'[c].events) = 2
                  \/ chans'[c].pc = "cancelled" /\ chans'[c].faults = chans[c].faults + 1
            \/ /\ chans'[c].timers = {now + pollInterval}
               /\ chans'[c].pc \in {"watching", "cancelled"}
               /\ Len(chans'[c].events) = 1

C40_OnePendingPoll == []C40_OneTimer /\ [][C40_PollStep]_vars

C40_Witness ==
    /\ chans["c1"].pc = "watching"
    /\ Len(chans["c1"].events) = 1
    /\ now = chans["c1"].startTime + graceMs
    /\ chans["c1"].timers = {now + pollInterval}
    /\ chans["c1"].sessionId \notin DOMAIN memoryStore

====
